---------------------------- MODULE Spec2Model ----------------------------
(***************************************************************************)
(* Tool approval gate, tool loading and tool-approval configuration of     *)
(* the LibreChat fork.                                                     *)
(*                                                                         *)
(*   wrapToolWithApproval, loadAgentTools   src/unnamed/part_001           *)
(*   requiresApproval, matchesPattern,                                     *)
(*   getToolServerName                      .../anthropic/initialize.ts    *)
(*                                                                         *)
(* JavaScript strings are sequences of one-character strings, so that      *)
(* includes / startsWith / endsWith / split are computed as the code       *)
(* computes them.                                                          *)
(***************************************************************************)
EXTENDS Integers, Sequences, FiniteSets, TLC

(***************************************************************************)
(* String literals of the source.                                          *)
(***************************************************************************)
MCP_DELIMITER ==
    <<":",":",":","m","c","p",":",":",":">>
S_builtin ==
    <<"b","u","i","l","t","i","n">>
S_mcp ==
    <<"m","c","p">>
S_all ==
    <<"a","l","l">>
S_star ==
    <<"*">>
S_mcp_colon_star ==
    <<"m","c","p",":","*">>
S_mcp_underscore_star ==
    <<"m","c","p","_","*">>
S_web_search ==
    <<"w","e","b","_","s","e","a","r","c","h">>
S_execute_code ==
    <<"e","x","e","c","u","t","e","_","c","o","d","e">>
S_file_search ==
    <<"f","i","l","e","_","s","e","a","r","c","h">>
S_validation_required ==
    <<"v","a","l","i","d","a","t","i","o","n"," ","r","e","q","u","i","r","e","d">>
S_User_rejected ==
    <<"U","s","e","r"," ","r","e","j","e","c","t","e","d">>
S_mcp_tool_validation ==
    <<"m","c","p","_","t","o","o","l","_","v","a","l","i","d","a","t","i","o","n">>
S_inner_prefix ==
    <<"T","o","o","l"," ","c","a","l","l"," ","v","a","l","i","d","a","t","i","o","n"," ","r","e","q","u","i","r","e","d"," ","f","o","r"," ">>
S_inner_suffix ==
    <<"."," ","U","s","e","r"," ","r","e","j","e","c","t","e","d"," ","o","r"," ","v","a","l","i","d","a","t","i","o","n"," ","t","i","m","e","d"," ","o","u","t",".">>
S_outer_prefix ==
    <<"T","o","o","l"," ","c","a","l","l"," ","f","o","r"," ">>
S_outer_suffix ==
    <<" ","w","a","s"," ","n","o","t"," ","a","p","p","r","o","v","e","d"," ","b","y"," ","t","h","e"," ","u","s","e","r",".">>

(***************************************************************************)
(* String.prototype operations used by the source.                         *)
(***************************************************************************)
StartsWith(s, p) ==
    /\ Len(p) <= Len(s)
    /\ SubSeq(s, 1, Len(p)) = p

EndsWith(s, p) ==
    /\ Len(p) <= Len(s)
    /\ SubSeq(s, Len(s) - Len(p) + 1, Len(s)) = p

\* positions (1-based) at which sub occurs in s
Occurrences(s, sub) ==
    { k \in 1..(Len(s) - Len(sub) + 1) : SubSeq(s, k, k + Len(sub) - 1) = sub }

Includes(s, sub) ==
    Occurrences(s, sub) # {}

MinOf(S) ==
    CHOOSE x \in S : \A y \in S : x <= y

\* s.split(sep)[1] || dflt, for a non-empty separator: the text between the
\* first and the second occurrence of sep (or the end of s); undefined when
\* sep does not occur, and an empty part is falsy, so both give dflt.
SplitSecondOr(s, sep, dflt) ==
    IF ~Includes(s, sep)
    THEN dflt
    ELSE LET first == MinOf(Occurrences(s, sep))
             rest  == SubSeq(s, first + Len(sep), Len(s))
             part  == IF Includes(rest, sep)
                      THEN SubSeq(rest, 1, MinOf(Occurrences(rest, sep)) - 1)
                      ELSE rest
         IN  IF part = <<>> THEN dflt ELSE part

(***************************************************************************)
(* packages/api/src/endpoints/anthropic/initialize.ts                      *)
(***************************************************************************)
\* matchesPattern(toolName, pattern)
matchesPattern(toolName, pattern) ==
    IF pattern = toolName THEN TRUE
    ELSE IF pattern = S_all THEN TRUE
    ELSE IF EndsWith(pattern, S_star)
         THEN StartsWith(toolName, SubSeq(pattern, 1, Len(pattern) - 1))
    ELSE IF pattern = S_mcp_colon_star \/ pattern = S_mcp_underscore_star
         THEN Includes(toolName, MCP_DELIMITER)
    ELSE FALSE

\* A TToolApproval value: required is undefined, true, false or an array of
\* patterns (required names which, requiredPatterns holds the array);
\* excluded is an array of patterns, an undefined excluded being the empty
\* array (the code tests `excluded && excluded.length > 0`).  defined = FALSE
\* is the undefined configuration.
ToolApproval(req, reqPatterns, excl) ==
    [defined |-> TRUE, required |-> req, requiredPatterns |-> reqPatterns,
     excluded |-> excl]

NoToolApproval ==
    [defined |-> FALSE, required |-> "undefined", requiredPatterns |-> <<>>,
     excluded |-> <<>>]

\* the required patterns are looked at before the excluded ones
requiresApprovalRequiredFirst(toolName, toolApproval) ==
    IF ~toolApproval.defined THEN FALSE
    ELSE IF toolApproval.required \in {"undefined", "false"} THEN FALSE
    ELSE IF toolApproval.required = "array"
            /\ \E k \in 1..Len(toolApproval.requiredPatterns) :
                   matchesPattern(toolName, toolApproval.requiredPatterns[k])
         THEN TRUE
    ELSE IF \E k \in 1..Len(toolApproval.excluded) :
                matchesPattern(toolName, toolApproval.excluded[k])
         THEN FALSE
    ELSE toolApproval.required = "true"

\* requiresApproval(toolName, toolApproval)
requiresApproval(toolName, toolApproval) ==
    IF ~toolApproval.defined THEN FALSE
    ELSE IF toolApproval.required \in {"undefined", "false"} THEN FALSE
    ELSE IF \E k \in 1..Len(toolApproval.excluded) :
                matchesPattern(toolName, toolApproval.excluded[k])
         THEN FALSE
    ELSE IF toolApproval.required = "true" THEN TRUE
    ELSE IF toolApproval.required = "array"
         THEN \E k \in 1..Len(toolApproval.requiredPatterns) :
                  matchesPattern(toolName, toolApproval.requiredPatterns[k])
    ELSE FALSE

\* the part before the delimiter is taken for the server
getToolServerNameFirstPart(toolName) ==
    IF Includes(toolName, MCP_DELIMITER)
    THEN LET part == SubSeq(toolName, 1, MinOf(Occurrences(toolName, MCP_DELIMITER)) - 1)
         IN  IF part = <<>> THEN S_mcp ELSE part
    ELSE S_builtin

\* getToolServerName(toolName)
getToolServerName(toolName) ==
    IF Includes(toolName, MCP_DELIMITER)
    THEN SplitSecondOr(toolName, MCP_DELIMITER, S_mcp)
    ELSE S_builtin

(***************************************************************************)
(* wrapToolWithApproval (src/unnamed/part_001, 379-460): the approval gate. *)
(* Every invocation of a wrapped tool is one slot of Calls.  The flow      *)
(* manager and MCPToolCallValidationHandler are not part of the sources;   *)
(* they are modelled from the specification (sections 3, 4.4, 5, 6).       *)
(***************************************************************************)
MaxCalls ==
    2
\* Time.TEN_MINUTES, in clock ticks of ten minutes
TEN_MINUTES ==
    1
\* the clock is observed over one approval window
MaxTime ==
    TEN_MINUTES

T_calc ==
    <<"c","a","l","c">>
T_mcp_search ==
    <<"f","i","n","d",":",":",":","m","c","p",":",":",":","s","r","v">>
M_boom ==
    <<"b","o","o","m">>
M_upstream ==
    <<"U","s","e","r"," ","r","e","j","e","c","t","e","d"," ","u","p","s","t","r","e","a","m">>
M_init_failed ==
    <<"s","t","o","r","e"," ","d","o","w","n">>

Calls ==
    1..MaxCalls
\* the request (AbortController) a call's config.signal may belong to
Requests ==
    {"reqA"}
NoSignal ==
    "undefined"
\* what the wrapped tool's own _call may do
ToolResults ==
    {"result1", "result2"}
ToolErrors ==
    {M_boom, M_upstream}
\* what initiateValidationFlow may throw
InitErrors ==
    {M_init_failed}

\* what a gated call receives: <<tool, toolArguments, config.signal>>.  The
\* tools are a builtin and an MCP tool that loadAgentTools wrapped; the
\* arguments a string and an object; the signal the request's, or none.
CallInputs ==
    { <<S_web_search, [type |-> "string", input |-> "q"], "reqA">>,
      <<T_mcp_search, [type |-> "object", input |-> "q"], NoSignal>> }

VARIABLES
    pc,        \* pc[i]: where invocation i of a wrapped tool._call stands
    call,      \* call[i]: [tool, args, config] the gated call received
    vid,       \* vid[i]: validationId returned by initiateValidationFlow
    meta,      \* meta[i]: flowMetadata returned by initiateValidationFlow
    flows,     \* the flow-state store: validationId -> ValidationFlow
    nextId,    \* source of fresh validation ids
    now,       \* Date.now(), in ticks
    aborted,   \* requests whose AbortSignal has fired
    trace,     \* trace[i]: what invocation i did, in order
    outcome    \* outcome[i]: how the gated call ended

gateVars ==
    <<pc, call, vid, meta, flows, nextId, now, aborted, trace, outcome>>

VARIABLES
    req,                  \* what loadAgentTools is called with and what its collaborators hold
    loadPc,               \* where the call of loadAgentTools stands
    filteredTools,        \* _agentTools
    loadedTools,          \* loadedTools
    agentTools,           \* agentTools
    domainMap,            \* domainMap, a Map in insertion order
    processedActionSets,  \* processedActionSets, a Map in insertion order
    cursor,               \* position of the loop that is running
    result,               \* what loadAgentTools returned or threw
    loadLog               \* the collaborator calls of the action set loops, in order

loadVars ==
    <<req, loadPc, filteredTools, loadedTools, agentTools, domainMap,
      processedActionSets, cursor, result, loadLog>>

VARIABLES
    client,           \* what processRequiredActions is called with and what its collaborators hold
    praPc,            \* where the call of processRequiredActions stands
    requiredActions,  \* requiredActions, with the output and toolInput the code writes to them
    ToolMap,          \* ToolMap, as the sequence of loaded tools
    index,            \* i, the position of the loop over requiredActions
    promises,         \* promises
    actionSets,       \* actionSets: the array, later the {domainMap, processedDomains} object
    compiling,        \* the loop over the loaded action sets: its position and the two maps it fills
    ActionToolMap,    \* ActionToolMap, a Map in insertion order
    isActionTool,     \* isActionTool
    contentData,      \* what client.addContentData was given, in order
    praLog,           \* the calls processRequiredActions made to its collaborators, in order
    tool_outputs      \* what processRequiredActions resolved or rejected with

praVars ==
    <<client, praPc, requiredActions, ToolMap, index, promises, actionSets, compiling,
      ActionToolMap, isActionTool, contentData, praLog, tool_outputs>>

VARIABLES
    tokenCall,        \* what mapTokenResponse is called with: response and mapping
    tokenPc,          \* where the call of mapTokenResponse stands
    tokens,           \* what mapTokenResponse returned or threw
    clock,            \* Date.now()
    nestedCall,       \* a call of getNestedValue: its arguments and what it returned
    approvalCall      \* a call of requiresApproval or matchesPattern, and its result

tokenVars ==
    <<tokenCall, tokenPc, tokens, clock, nestedCall, approvalCall>>

NoCall ==
    [tool |-> <<>>, args |-> [type |-> "none", input |-> ""],
     config |-> [signal |-> NoSignal, userId |-> "", toolCall |-> [id |-> 0, name |-> <<>>, args |-> [type |-> "none", input |-> ""], stepId |-> 0]]]
NoMeta ==
    [toolName |-> <<>>, serverName |-> <<>>, userId |-> "",
     arguments |-> [type |-> "none", input |-> ""], expiresAt |-> 0]
NoOutcome ==
    [kind |-> "none", value |-> "", message |-> <<>>]
Returned(v) ==
    [kind |-> "returned", value |-> v, message |-> <<>>]
Threw(m) ==
    [kind |-> "threw", value |-> "", message |-> m]

\* the config a run hands to invocation i: its signal (if any), the user and
\* the tool call {id, name, args, stepId}
Config(i, t, a, s) ==
    [signal |-> s, userId |-> "u1",
     toolCall |-> [id |-> i, name |-> t, args |-> a, stepId |-> i]]

\* line 390: config?.signal ? AbortSignal.any([config.signal]) : undefined
derivedSignalShared(config) ==
    "reqA"
derivedSignalDropped(config) ==
    NoSignal
derivedSignal(config) ==
    config.signal

\* line 400: typeof toolArguments === 'string' ? { input: toolArguments } : toolArguments
FlowArguments(toolArguments) ==
    IF toolArguments.type = "string"
    THEN [type |-> "object", input |-> toolArguments.input]
    ELSE toolArguments

\* lines 404-412: the validation request event
ValidationData(config, validationId, t) ==
    [id |-> config.toolCall.stepId,
     delta |-> [type |-> "tool_calls",
                tool_calls |-> <<[id |-> config.toolCall.id, name |-> config.toolCall.name, args |-> <<>>]>>,
                validation |-> validationId,
                expires_at |-> t + TEN_MINUTES]]

\* the follow-up event repeats the announcement's validation and expires_at
SuccessDataAnnounced(config) ==
    [id |-> config.toolCall.stepId,
     delta |-> [type |-> "tool_calls",
                tool_calls |-> <<[id |-> config.toolCall.id, name |-> config.toolCall.name]>>,
                validation |-> 0,
                expires_at |-> TEN_MINUTES]]

\* lines 424-430: the validation success event
SuccessData(config) ==
    [id |-> config.toolCall.stepId,
     delta |-> [type |-> "tool_calls",
                tool_calls |-> <<[id |-> config.toolCall.id, name |-> config.toolCall.name]>>]]

\* lines 434-436: the error the inner catch throws
InnerErrorMessage(toolName) ==
    S_inner_prefix \o toolName \o S_inner_suffix

\* lines 443-446
isValidationError(message) ==
    \/ Includes(message, S_validation_required)
    \/ Includes(message, S_User_rejected)
    \/ Includes(message, S_mcp_tool_validation)

\* line 449
NotApprovedMessage(toolName) ==
    S_outer_prefix \o toolName \o S_outer_suffix

\* lines 441-453: the outer catch; the message of the error the gated call throws
OuterCatchRethrow(toolName, message) ==
    message
OuterCatch(toolName, message) ==
    IF isValidationError(message) THEN NotApprovedMessage(toolName) ELSE message

\* line 420, first argument: the id the flow is created and awaited under
FlowIdArgPerTool(i) ==
    IF call[i].tool = S_web_search THEN 1 ELSE 2
FlowIdArg(i) ==
    vid[i]

(***************************************************************************)
(* The flow-state manager and the validation handler, from the             *)
(* specification: a ValidationFlow is {validationId, toolName, serverName, *)
(* userId, arguments, expiresAt, state}; PENDING -> APPROVED | REJECTED |  *)
(* EXPIRED | CANCELLED, whichever of decision, expiry and cancellation     *)
(* arrives first.                                                          *)
(***************************************************************************)
Terminal ==
    {"APPROVED", "REJECTED", "EXPIRED", "CANCELLED"}

\* initiateValidationFlow(userId, serverName, toolName, arguments): the metadata
FlowMetadata(userId, serverName, toolName, arguments, t) ==
    [toolName |-> toolName, serverName |-> serverName, userId |-> userId,
     arguments |-> arguments, expiresAt |-> t + TEN_MINUTES]

\* createFlow(id, type, metadata, signal): the store with the flow added
CreateFlow(store, id, metadata, signal) ==
    (id :> [validationId |-> id, toolName |-> metadata.toolName,
            serverName |-> metadata.serverName, userId |-> metadata.userId,
            arguments |-> metadata.arguments, expiresAt |-> metadata.expiresAt,
            signal |-> signal,
            state |-> IF signal \in aborted THEN "CANCELLED" ELSE "PENDING"])
    @@ store

IsPending(store, v) ==
    /\ v \in DOMAIN store
    /\ store[v].state = "PENDING"

\* resolve(id, decision): takes effect on a pending flow before its expiry
ResolveFlow(store, v, decision) ==
    IF IsPending(store, v) /\ now < store[v].expiresAt
    THEN [store EXCEPT ![v].state = decision]
    ELSE store

\* the validation ids announced to the client so far
AnnouncedIds ==
    UNION { { trace[i][k].event.delta.validation :
                k \in { n \in 1..Len(trace[i]) : trace[i][n].kind = "pending_event" } } :
            i \in Calls }

(***************************************************************************)
(* The steps of one gated invocation.                                      *)
(***************************************************************************)
\* lines 384-401: tool._call(toolArguments, config) up to the first await;
\* invocations are numbered in the order they are made
Call(i, t, a, s) ==
    /\ pc[i] = "idle"
    /\ \A j \in 1..(i - 1) : pc[j] # "idle"
    /\ now + TEN_MINUTES <= MaxTime
    /\ pc' = [pc EXCEPT ![i] = "initiating"]
    /\ call' = [call EXCEPT ![i] = [tool |-> t, args |-> a, config |-> Config(i, t, a, s)]]
    /\ UNCHANGED <<vid, meta, flows, nextId, now, aborted, trace, outcome>>
    /\ UNCHANGED <<loadVars, praVars, tokenVars>>

\* lines 395-401: initiateValidationFlow resolves with a fresh id and the
\* metadata; flows are created while their expiry lies within the clock's bound
InitiateOk(i) ==
    /\ pc[i] = "initiating"
    /\ now + TEN_MINUTES <= MaxTime
    /\ pc' = [pc EXCEPT ![i] = "initiated"]
    /\ vid' = [vid EXCEPT ![i] = nextId]
    /\ nextId' = nextId + 1
    /\ meta' = [meta EXCEPT ![i] =
                  FlowMetadata(call[i].config.userId, getToolServerName(call[i].tool),
                               call[i].tool, FlowArguments(call[i].args), now)]
    /\ UNCHANGED <<call, flows, now, aborted, trace, outcome>>
    /\ UNCHANGED <<loadVars, praVars, tokenVars>>

\* lines 395-396 reject; lines 441-453 catch
InitiateThrows(i, m) ==
    /\ pc[i] = "initiating"
    /\ pc' = [pc EXCEPT ![i] = "failed"]
    /\ trace' = [trace EXCEPT ![i] = @ \o << [kind |-> "initiateThrow", message |-> m] >>]
    /\ outcome' = [outcome EXCEPT ![i] = Threw(OuterCatch(call[i].tool, m))]
    /\ UNCHANGED <<call, vid, meta, flows, nextId, now, aborted>>
    /\ UNCHANGED <<loadVars, praVars, tokenVars>>

\* lines 403-420: send the validation request, then wait on the flow
SendValidationRequest(i) ==
    /\ pc[i] = "initiated"
    /\ pc' = [pc EXCEPT ![i] = "waiting"]
    /\ trace' = [trace EXCEPT ![i] = @ \o
                   << [kind |-> "pending_event", event |-> ValidationData(call[i].config, vid[i], now)],
                      [kind |-> "createFlow", id |-> FlowIdArg(i)] >>]
    /\ flows' = CreateFlow(flows, FlowIdArg(i), meta[i], derivedSignal(call[i].config))
    /\ UNCHANGED <<call, vid, meta, nextId, now, aborted, outcome>>
    /\ UNCHANGED <<loadVars, praVars, tokenVars>>

\* lines 421-431 and 440: createFlow resolved
OnApprovedOnAnySettlement(i) ==
    /\ pc[i] = "waiting"
    /\ FlowIdArg(i) \in DOMAIN flows
    /\ flows[FlowIdArg(i)].state \in Terminal
    /\ pc' = [pc EXCEPT ![i] = "executing"]
    /\ trace' = [trace EXCEPT ![i] = @ \o
                   << [kind |-> "success_event", event |-> SuccessData(call[i].config)],
                      [kind |-> "originalCall", args |-> call[i].args, config |-> call[i].config] >>]
    /\ UNCHANGED <<call, vid, meta, flows, nextId, now, aborted, outcome>>
    /\ UNCHANGED <<loadVars, praVars, tokenVars>>
OnApprovedConvertedArgs(i) ==
    /\ pc[i] = "waiting"
    /\ FlowIdArg(i) \in DOMAIN flows
    /\ flows[FlowIdArg(i)].state = "APPROVED"
    /\ pc' = [pc EXCEPT ![i] = "executing"]
    /\ trace' = [trace EXCEPT ![i] = @ \o
                   << [kind |-> "success_event", event |-> SuccessData(call[i].config)],
                      [kind |-> "originalCall", args |-> FlowArguments(call[i].args), config |-> call[i].config] >>]
    /\ UNCHANGED <<call, vid, meta, flows, nextId, now, aborted, outcome>>
    /\ UNCHANGED <<loadVars, praVars, tokenVars>>
OnApproved(i) ==
    /\ pc[i] = "waiting"
    /\ FlowIdArg(i) \in DOMAIN flows
    /\ flows[FlowIdArg(i)].state = "APPROVED"
    /\ pc' = [pc EXCEPT ![i] = "executing"]
    /\ trace' = [trace EXCEPT ![i] = @ \o
                   << [kind |-> "success_event", event |-> SuccessData(call[i].config)],
                      [kind |-> "originalCall", args |-> call[i].args, config |-> call[i].config] >>]
    /\ UNCHANGED <<call, vid, meta, flows, nextId, now, aborted, outcome>>
    /\ UNCHANGED <<loadVars, praVars, tokenVars>>

\* lines 432-437 and 441-453: createFlow rejected
OnValidationErrorFallsThrough(i) ==
    /\ pc[i] = "waiting"
    /\ FlowIdArg(i) \in DOMAIN flows
    /\ flows[FlowIdArg(i)].state \in {"REJECTED", "EXPIRED", "CANCELLED"}
    /\ pc' = [pc EXCEPT ![i] = "executing"]
    /\ trace' = [trace EXCEPT ![i] = @ \o
                   << [kind |-> "originalCall", args |-> call[i].args, config |-> call[i].config] >>]
    /\ UNCHANGED <<call, vid, meta, flows, nextId, now, aborted, outcome>>
    /\ UNCHANGED <<loadVars, praVars, tokenVars>>
OnValidationErrorIgnoresExpiry(i) ==
    /\ pc[i] = "waiting"
    /\ FlowIdArg(i) \in DOMAIN flows
    /\ flows[FlowIdArg(i)].state \in {"REJECTED", "CANCELLED"}
    /\ pc' = [pc EXCEPT ![i] = "failed"]
    /\ outcome' = [outcome EXCEPT ![i] =
                     Threw(OuterCatch(call[i].tool, InnerErrorMessage(call[i].tool)))]
    /\ UNCHANGED <<call, vid, meta, flows, nextId, now, aborted, trace>>
    /\ UNCHANGED <<loadVars, praVars, tokenVars>>
OnValidationError(i) ==
    /\ pc[i] = "waiting"
    /\ FlowIdArg(i) \in DOMAIN flows
    /\ flows[FlowIdArg(i)].state \in {"REJECTED", "EXPIRED", "CANCELLED"}
    /\ pc' = [pc EXCEPT ![i] = "failed"]
    /\ outcome' = [outcome EXCEPT ![i] =
                     Threw(OuterCatch(call[i].tool, InnerErrorMessage(call[i].tool)))]
    /\ UNCHANGED <<call, vid, meta, flows, nextId, now, aborted, trace>>
    /\ UNCHANGED <<loadVars, praVars, tokenVars>>

\* line 440: originalCall returns
OriginalReturns(i, r) ==
    /\ pc[i] = "executing"
    /\ pc' = [pc EXCEPT ![i] = "done"]
    /\ trace' = [trace EXCEPT ![i] = @ \o << [kind |-> "originalReturn", value |-> r] >>]
    /\ outcome' = [outcome EXCEPT ![i] = Returned(r)]
    /\ UNCHANGED <<call, vid, meta, flows, nextId, now, aborted>>
    /\ UNCHANGED <<loadVars, praVars, tokenVars>>

\* line 440 throws; lines 441-453 catch
OriginalThrows(i, m) ==
    /\ pc[i] = "executing"
    /\ pc' = [pc EXCEPT ![i] = "failed"]
    /\ trace' = [trace EXCEPT ![i] = @ \o << [kind |-> "originalThrow", message |-> m] >>]
    /\ outcome' = [outcome EXCEPT ![i] = Threw(OuterCatch(call[i].tool, m))]
    /\ UNCHANGED <<call, vid, meta, flows, nextId, now, aborted>>
    /\ UNCHANGED <<loadVars, praVars, tokenVars>>

(***************************************************************************)
(* The environment: the approver, the timer, the request, the clock.       *)
(***************************************************************************)
\* the external approver resolves a flow it was told about
Resolve(v, decision) ==
    /\ v \in AnnouncedIds
    /\ flows' = ResolveFlow(flows, v, decision)
    /\ UNCHANGED <<pc, call, vid, meta, nextId, now, aborted, trace, outcome>>
    /\ UNCHANGED <<loadVars, praVars, tokenVars>>

\* expiry of a pending flow
Expire(v) ==
    /\ IsPending(flows, v)
    /\ now >= flows[v].expiresAt
    /\ flows' = [flows EXCEPT ![v].state = "EXPIRED"]
    /\ UNCHANGED <<pc, call, vid, meta, nextId, now, aborted, trace, outcome>>
    /\ UNCHANGED <<loadVars, praVars, tokenVars>>

\* the request's AbortSignal fires: every pending flow waiting on it is cancelled
Abort(r) ==
    /\ r \notin aborted
    /\ aborted' = aborted \cup {r}
    /\ flows' = [v \in DOMAIN flows |->
                   IF /\ flows[v].signal = r
                      /\ flows[v].state = "PENDING"
                      /\ now < flows[v].expiresAt
                   THEN [flows[v] EXCEPT !.state = "CANCELLED"]
                   ELSE flows[v]]
    /\ UNCHANGED <<pc, call, vid, meta, nextId, now, trace, outcome>>
    /\ UNCHANGED <<loadVars, praVars, tokenVars>>

\* the clock advances, up to MaxTime
Tick ==
    /\ now < MaxTime
    /\ now' = now + 1
    /\ UNCHANGED <<pc, call, vid, meta, flows, nextId, aborted, trace, outcome>>
    /\ UNCHANGED <<loadVars, praVars, tokenVars>>

GateInit ==
    /\ pc = [i \in Calls |-> "idle"]
    /\ call = [i \in Calls |-> NoCall]
    /\ vid = [i \in Calls |-> 0]
    /\ meta = [i \in Calls |-> NoMeta]
    /\ flows = <<>>
    /\ nextId = 1
    /\ now = 0
    /\ aborted = {}
    /\ trace = [i \in Calls |-> <<>>]
    /\ outcome = [i \in Calls |-> NoOutcome]

GateNext ==
    \/ \E i \in Calls, c \in CallInputs :
           Call(i, c[1], c[2], c[3])
    \/ \E i \in Calls : InitiateOk(i)
    \/ \E i \in Calls, m \in InitErrors : InitiateThrows(i, m)
    \/ \E i \in Calls : SendValidationRequest(i)
    \/ \E i \in Calls : OnApproved(i)
    \/ \E i \in Calls : OnValidationError(i)
    \/ \E i \in Calls, r \in ToolResults : OriginalReturns(i, r)
    \/ \E i \in Calls, m \in ToolErrors : OriginalThrows(i, m)
    \/ \E v \in 1..MaxCalls, d \in {"APPROVED", "REJECTED"} : Resolve(v, d)
    \/ \E v \in 1..MaxCalls : Expire(v)
    \/ \E r \in Requests : Abort(r)
    \/ Tick

(***************************************************************************)
(* loadAgentTools (src/unnamed/part_001, 472-769): the tools of an agent,  *)
(* the approval gate put around those that require approval, and the       *)
(* action tools compiled from the agent's action sets.  loadTools, the     *)
(* action-set store and the helpers of the action service (domainParser,   *)
(* isActionDomainAllowed, validateAndParseOpenAPISpec,                     *)
(* validateActionDomain, decryptMetadata, openapiToFunction,               *)
(* createActionTool) are not part of the sources; they are modelled from   *)
(* the specification (sections 4.1, 4.2, 4.3).                             *)
(***************************************************************************)
actionDelimiter ==
    <<"_","a","c","t","i","o","n","_">>
actionDomainSeparator ==
    <<"-","-","-">>
T_ocr ==
    <<"o","c","r">>
T_context ==
    <<"c","o","n","t","e","x","t">>
D_x_io ==
    <<"x",".","i","o">>
D_ax_io ==
    <<"a","x",".","i","o">>
D_evil_io ==
    <<"e","v","i","l",".","i","o">>
A_get_x ==
    <<"g","e","t","_","a","c","t","i","o","n","_","x","-","-","-","i","o">>
A_put_ax ==
    <<"p","u","t","_","a","c","t","i","o","n","_","a","x","-","-","-","i","o">>
F_get ==
    <<"g","e","t">>
F_put ==
    <<"p","u","t">>

\* s.replace(sub, rep) with a string pattern: the first occurrence only
ReplaceFirst(s, sub, rep) ==
    IF ~Includes(s, sub)
    THEN s
    ELSE LET k == MinOf(Occurrences(s, sub))
         IN  SubSeq(s, 1, k - 1) \o rep \o SubSeq(s, k + Len(sub), Len(s))

\* s.replace(/c/g, rep) for a one-character c
ReplaceAll(s, c, rep) ==
    LET r[k \in 0..Len(s)] ==
            IF k = 0 THEN <<>>
            ELSE r[k - 1] \o (IF s[k] = c THEN rep ELSE <<s[k]>>)
    IN  r[Len(s)]

\* a JavaScript Map as the sequence of its entries in insertion order
MapHas(m, key) ==
    \E k \in 1..Len(m) : m[k].key = key
MapGet(m, key) ==
    m[CHOOSE k \in 1..Len(m) : m[k].key = key].value
MapSet(m, key, value) ==
    IF MapHas(m, key)
    THEN [k \in 1..Len(m) |-> IF m[k].key = key THEN [key |-> key, value |-> value] ELSE m[k]]
    ELSE Append(m, [key |-> key, value |-> value])
MapKeys(m) ==
    [k \in 1..Len(m) |-> m[k].key]

\* AgentCapabilities the loader asks for, and the fallback set
AgentCapabilities ==
    {"tools", "web_search", "execute_code", "file_search", "actions"}
defaultAgentCapabilities ==
    {"execute_code", "file_search", "web_search", "artifacts", "actions",
     "context", "tools", "chain", "ocr"}

\* a tool handle: its name, the mcp mark, whether it is a
\* DynamicStructuredTool, the requiresApproval mark (line 457), what its
\* _call is ("original", or "gated" once wrapToolWithApproval replaced it),
\* and where it was built
Tool(name, mcp, dynamic, source) ==
    [name |-> name, mcp |-> mcp, dynamic |-> dynamic, requiresApproval |-> FALSE,
     call |-> "original", source |-> source]

S_calculator ==
    <<"c","a","l","c","u","l","a","t","o","r">>
K_ka ==
    <<"k","a">>
K_kb ==
    <<"k","b">>
T_ka_x ==
    <<"k","a","_","x">>
T_kb_y ==
    <<"k","b","_","y">>
S_underscore ==
    <<"_">>

\* the tool registry behind loadTools: the builtin and MCP tools it can build
\* an image-generation tool, and imageGenTools of librechat-data-provider
S_dalle ==
    <<"d","a","l","l","e">>
imageGenTools ==
    {S_dalle}

Registry ==
    {S_web_search, S_execute_code, S_file_search, T_calc, T_mcp_search, S_calculator, S_dalle}

\* the toolkits, and the tools a toolkit's plugin key stands for
toolkits ==
    << [pluginKey |-> K_ka], [pluginKey |-> K_kb] >>
ToolkitMembers ==
    <<T_ka_x, T_kb_y>>

\* loadTools({tools}): a handle for every requested name the registry knows,
\* and for a toolkit's plugin key the handles of the toolkit's tools
loadTools(tools) ==
    LET handles(t) ==
            IF t \in Registry
            THEN << Tool(t, Includes(t, MCP_DELIMITER), FALSE, "registry") >>
            ELSE LET members == SelectSeq(ToolkitMembers,
                                          LAMBDA m : StartsWith(m, t \o S_underscore))
                 IN  IF \E k \in 1..Len(toolkits) : toolkits[k].pluginKey = t
                     THEN [k \in 1..Len(members) |-> Tool(members[k], FALSE, FALSE, "registry")]
                     ELSE <<>>
        all[k \in 0..Len(tools)] ==
            IF k = 0 THEN <<>> ELSE all[k - 1] \o handles(tools[k])
    IN  all[Len(tools)]

\* an action set as stored: the domain it is registered for, and of its raw
\* OpenAPI document whether it parses, the domain of its server URL and its
\* operations; whether its secrets decrypt and its tools can be built
ActionSet(id, domain, valid, serverDomain, operations, decrypts, builds) ==
    [action_id |-> id,
     metadata |-> [domain |-> domain,
                   raw_spec |-> [valid |-> valid, serverDomain |-> serverDomain,
                                 operations |-> operations],
                   decrypts |-> decrypts, builds |-> builds]]

\* domainParser(domain, true): the domain as it appears in tool names
domainParser(domain) ==
    ReplaceAll(domain, ".", actionDomainSeparator)

\* isActionDomainAllowed(domain, allowedDomains)
isActionDomainAllowed(domain, allowedDomains) ==
    domain \in allowedDomains

\* validateAndParseOpenAPISpec(raw_spec): {spec, serverUrl} of a document that parses
validateAndParseOpenAPISpec(raw_spec) ==
    IF raw_spec.valid
    THEN [spec |-> TRUE, serverUrl |-> raw_spec.serverDomain, operations |-> raw_spec.operations]
    ELSE [spec |-> FALSE, serverUrl |-> <<>>, operations |-> {}]

\* validateActionDomain(domain, serverUrl).isValid
validateActionDomain(domain, serverUrl) ==
    serverUrl = domain

\* openapiToFunction(spec).requestBuilders: the names it has a builder for
openapiToFunction(validationResult) ==
    validationResult.operations

\* createActionTool({... name}): the action tool, or null
createActionTool(action, name) ==
    IF action.metadata.builds
    THEN [kind |-> "tool", tool |-> Tool(name, FALSE, TRUE, "action")]
    ELSE [kind |-> "null", tool |-> Tool(name, FALSE, TRUE, "action")]

\* lines 486-492: the capabilities in force
enabledCapabilities(r) ==
    IF r.capabilities = {} /\ r.ephemeral
    THEN defaultAgentCapabilities
    ELSE r.capabilities

\* lines 493-501
checkCapability(r, capability) ==
    capability \in enabledCapabilities(r)

\* lines 505-517: the filter that gives _agentTools
keepTool(r, tool) ==
    IF tool = S_file_search THEN checkCapability(r, "file_search")
    ELSE IF tool = S_execute_code THEN checkCapability(r, "execute_code")
    ELSE IF tool = S_web_search THEN checkCapability(r, "web_search")
    ELSE IF ~checkCapability(r, "tools") /\ ~Includes(tool, actionDelimiter) THEN FALSE
    ELSE TRUE

\* lines 379-460 as seen by the loader: the tool with its _call replaced by
\* the gate and marked requiresApproval
wrapToolWithApproval(tool) ==
    [tool EXCEPT !.call = "gated", !.requiresApproval = TRUE]

\* lines 603-615: a new tool whose function calls tool._call
toolFn(tool) ==
    [name |-> tool.name, mcp |-> FALSE, dynamic |-> TRUE, requiresApproval |-> FALSE,
     call |-> tool.call, source |-> "toolFn"]

\* lines 573 and 577: is the loaded tool wrapped
needsWrap(r, tool) ==
    r.res /\ requiresApproval(tool.name, r.toolApproval)

\* lines 569-617: what one iteration of the loop pushes to agentTools
pushedFor(r, loaded) ==
    LET tool == IF needsWrap(r, loaded) THEN wrapToolWithApproval(loaded) ELSE loaded
    IN  IF tool.name = S_execute_code \/ tool.name = S_file_search THEN <<tool>>
        ELSE IF ~checkCapability(r, "tools") THEN <<>>
        ELSE IF tool.mcp \/ tool.requiresApproval THEN <<tool>>
        ELSE IF tool.dynamic THEN <<tool>>
        ELSE <<toolFn(tool)>>

\* lines 567-618: agentTools after the loop over loadedTools
wrapLoop(r, loaded) ==
    LET a[k \in 0..Len(loaded)] ==
            IF k = 0 THEN <<>> ELSE a[k - 1] \o pushedFor(r, loaded[k])
    IN  a[Len(loaded)]

\* lines 620-623 and 711: ToolMap[toolName] is set
InToolMap(loaded, toolName) ==
    \E k \in 1..Len(loaded) : loaded[k].name = toolName

\* lines 716-722: the first domain of domainMap the tool name contains, or ''
currentDomain(dmap, toolName) ==
    LET hits == { k \in 1..Len(dmap) : Includes(toolName, dmap[k].key) }
    IN  IF hits = {} THEN <<>> ELSE dmap[MinOf(hits)].key

\* the values loadAgentTools resolves with or rejects with
NoResult ==
    [kind |-> "none", tools |-> <<>>]
EmptyResult ==
    [kind |-> "empty", tools |-> <<>>]
ToolsResult(tools) ==
    [kind |-> "tools", tools |-> tools]
Rejected(error) ==
    [kind |-> error, tools |-> <<>>]

\* lines 473-539: the early returns, the capability filter, the call of loadTools
LoadStart ==
    /\ loadPc = "start"
    /\ LET kept == SelectSeq(req.tools, LAMBDA t : keepTool(req, t))
       IN  IF \/ Len(req.tools) = 0
              \/ (Len(req.tools) = 1 /\ req.tools[1] \in {T_context, T_ocr})
              \/ Len(kept) = 0
           THEN /\ loadPc' = "returned"
                /\ result' = EmptyResult
                /\ UNCHANGED filteredTools
           ELSE /\ loadPc' = "loadTools"
                /\ filteredTools' = kept
                /\ UNCHANGED result
    /\ UNCHANGED <<req, loadLog, loadedTools, agentTools, domainMap, processedActionSets, cursor>>
    /\ UNCHANGED <<gateVars, praVars, tokenVars>>

\* lines 539-633: loadTools resolved; the wrap loop; the actions capability
LoadToolsDone ==
    /\ loadPc = "loadTools"
    /\ loadedTools' = loadTools(filteredTools)
    /\ agentTools' = wrapLoop(req, loadedTools')
    /\ IF ~checkCapability(req, "actions")
       THEN /\ loadPc' = "returned"
            /\ result' = ToolsResult(agentTools')
       ELSE /\ loadPc' = "loadActionSets"
            /\ UNCHANGED result
    /\ UNCHANGED <<req, loadLog, filteredTools, domainMap, processedActionSets, cursor>>
    /\ UNCHANGED <<gateVars, praVars, tokenVars>>

\* lines 633-649: loadActionSets resolved
LoadActionSetsDone ==
    /\ loadPc = "loadActionSets"
    /\ IF Len(req.actionSets) = 0
       THEN /\ loadPc' = "returned"
            /\ result' = ToolsResult(agentTools)
            /\ UNCHANGED cursor
       ELSE /\ loadPc' = "processing"
            /\ cursor' = 1
            /\ UNCHANGED result
    /\ UNCHANGED <<req, loadLog, filteredTools, loadedTools, agentTools, domainMap, processedActionSets>>
    /\ UNCHANGED <<gateVars, praVars, tokenVars>>

\* lines 649-705 for one action set: the collaborator calls, in order
compileCalls(r, action) ==
    LET validationResult == validateAndParseOpenAPISpec(action.metadata.raw_spec)
        id == action.action_id
        parsed == << [op |-> "domainParser", id |-> id],
                     [op |-> "isActionDomainAllowed", id |-> id] >>
        validated == parsed \o << [op |-> "validateAndParseOpenAPISpec", id |-> id] >>
        matched == validated \o << [op |-> "validateActionDomain", id |-> id] >>
        decrypted == matched \o << [op |-> "decryptMetadata", id |-> id] >>
    IN  IF ~isActionDomainAllowed(action.metadata.domain, r.allowedDomains) THEN parsed
        ELSE IF ~validationResult.spec \/ validationResult.serverUrl = <<>> THEN validated
        ELSE IF ~validateActionDomain(action.metadata.domain, validationResult.serverUrl)
        THEN matched
        ELSE IF ~action.metadata.decrypts THEN decrypted
        ELSE Append(decrypted, [op |-> "openapiToFunction", id |-> id])

\* lines 649-705: one action set
ProcessActionSet ==
    /\ loadPc = "processing"
    /\ LET action == req.actionSets[cursor]
           domain == domainParser(action.metadata.domain)
           validationResult == validateAndParseOpenAPISpec(action.metadata.raw_spec)
           skipped == \/ ~isActionDomainAllowed(action.metadata.domain, req.allowedDomains)
                      \/ ~validationResult.spec
                      \/ validationResult.serverUrl = <<>>
                      \/ ~validateActionDomain(action.metadata.domain, validationResult.serverUrl)
           last == cursor = Len(req.actionSets)
       IN  /\ domainMap' = MapSet(domainMap, domain, action)
           /\ loadLog' = loadLog \o compileCalls(req, action)
           /\ IF ~skipped /\ ~action.metadata.decrypts
              THEN /\ loadPc' = "threw"
                   /\ result' = Rejected("decryptMetadata failed")
                   /\ UNCHANGED <<processedActionSets, cursor>>
              ELSE /\ processedActionSets' =
                        IF skipped THEN processedActionSets
                        ELSE MapSet(processedActionSets, domain,
                                    [action |-> action,
                                     requestBuilders |-> openapiToFunction(validationResult)])
                   /\ loadPc' = IF last THEN "mapping" ELSE "processing"
                   /\ cursor' = IF last THEN 1 ELSE cursor + 1
                   /\ UNCHANGED result
    /\ UNCHANGED <<req, filteredTools, loadedTools, agentTools>>
    /\ UNCHANGED <<gateVars, praVars, tokenVars>>

\* lines 710-768: one requested tool name; after the last one, the return
MapTool ==
    /\ loadPc = "mapping"
    /\ LET toolName == filteredTools[cursor]
           current == currentDomain(domainMap, toolName)
           resolvable == /\ ~InToolMap(loadedTools, toolName)
                         /\ current # <<>>
                         /\ MapHas(processedActionSets, current)
           entry == MapGet(processedActionSets, current)
           functionName == ReplaceFirst(toolName, actionDelimiter \o current, <<>>)
           built == createActionTool(entry.action, toolName)
           pushes == resolvable /\ functionName \in entry.requestBuilders
           last == cursor = Len(filteredTools)
       IN  /\ loadLog' = IF pushes
                         THEN Append(loadLog, [op |-> "createActionTool",
                                               id |-> entry.action.action_id,
                                               name |-> toolName])
                         ELSE loadLog
           /\ IF pushes /\ built.kind = "null"
              THEN /\ loadPc' = "threw"
                   /\ result' = Rejected("invalid_action")
                   /\ UNCHANGED <<agentTools, cursor>>
              ELSE /\ agentTools' = IF pushes THEN Append(agentTools, built.tool) ELSE agentTools
                   /\ cursor' = IF last THEN cursor ELSE cursor + 1
                   /\ loadPc' = IF last THEN "returned" ELSE "mapping"
                   /\ result' = IF ~last THEN result
                                ELSE IF Len(agentTools') = 0 THEN EmptyResult
                                ELSE ToolsResult(agentTools')
    /\ UNCHANGED <<req, filteredTools, loadedTools, domainMap, processedActionSets>>
    /\ UNCHANGED <<gateVars, praVars, tokenVars>>

\* the requests the loader is given.  agent.tools: any selection, in order, of
\* a builtin search tool, the code tool, a plain builtin, an MCP tool and two
\* action tools, or the legacy single 'ocr'
AllTools ==
    <<S_web_search, S_execute_code, T_calc, T_mcp_search, A_get_x, A_put_ax>>
Selection(picked) ==
    LET s[k \in 0..Len(AllTools)] ==
            IF k = 0 THEN <<>>
            ELSE IF k \in picked THEN Append(s[k - 1], AllTools[k]) ELSE s[k - 1]
    IN  s[Len(AllTools)]
AgentToolLists ==
    { Selection(picked) : picked \in SUBSET (1..Len(AllTools)) } \cup { <<T_ocr>> }

\* endpoints.agents.capabilities, and whether the agent is the ephemeral one
CapabilityInputs ==
    { <<AgentCapabilities, FALSE>>,
      <<AgentCapabilities \ {"tools"}, FALSE>>,
      <<AgentCapabilities \ {"actions"}, FALSE>>,
      <<{}, TRUE>>,
      <<{}, FALSE>> }

\* endpoints.agents.toolApproval
ToolApprovalInputs ==
    { NoToolApproval,
      ToolApproval("true", <<>>, <<>>),
      ToolApproval("true", <<>>, <<S_web_search>>),
      ToolApproval("array", <<S_web_search, T_mcp_search>>, <<>>) }

\* the stored action sets of the agent
GoodX ==
    ActionSet(1, D_x_io, TRUE, D_x_io, {F_get}, TRUE, TRUE)
GoodAx ==
    ActionSet(2, D_ax_io, TRUE, D_ax_io, {F_put}, TRUE, TRUE)
MismatchX ==
    ActionSet(3, D_x_io, TRUE, D_evil_io, {F_get}, TRUE, TRUE)
DisallowedEvil ==
    ActionSet(4, D_evil_io, TRUE, D_evil_io, {F_get}, TRUE, TRUE)
UnparsableX ==
    ActionSet(5, D_x_io, FALSE, D_x_io, {F_get}, TRUE, TRUE)
UndecryptableX ==
    ActionSet(6, D_x_io, TRUE, D_x_io, {F_get}, FALSE, TRUE)
UnbuildableX ==
    ActionSet(7, D_x_io, TRUE, D_x_io, {F_get}, TRUE, FALSE)
ActionSetLists ==
    { <<>>, <<GoodX>>, <<GoodX, GoodAx>>, <<GoodAx, GoodX>>, <<MismatchX, GoodAx>>,
      <<DisallowedEvil, GoodX>>, <<UnparsableX, GoodAx>>, <<UndecryptableX>>,
      <<UnbuildableX>> }

\* actions.allowedDomains
AllowedDomains ==
    {D_x_io, D_ax_io}

LoadRequests ==
    { [tools |-> t, res |-> r, capabilities |-> c[1], ephemeral |-> c[2],
       toolApproval |-> a, actionSets |-> s, allowedDomains |-> AllowedDomains] :
        t \in AgentToolLists, r \in BOOLEAN, c \in CapabilityInputs,
        a \in ToolApprovalInputs, s \in ActionSetLists }

\* no call of loadAgentTools
NoRequest ==
    [tools |-> <<>>, res |-> FALSE, capabilities |-> {}, ephemeral |-> FALSE,
     toolApproval |-> NoToolApproval, actionSets |-> <<>>, allowedDomains |-> {}]

LoadLocals ==
    /\ filteredTools = <<>>
    /\ loadedTools = <<>>
    /\ agentTools = <<>>
    /\ domainMap = <<>>
    /\ processedActionSets = <<>>
    /\ cursor = 0
    /\ result = NoResult
    /\ loadLog = <<>>

LoadIdle ==
    /\ req = NoRequest
    /\ loadPc = "idle"
    /\ LoadLocals

LoadInit ==
    /\ req \in LoadRequests
    /\ loadPc = "start"
    /\ LoadLocals

LoadNext ==
    \/ LoadStart
    \/ LoadToolsDone
    \/ LoadActionSetsDone
    \/ ProcessActionSet
    \/ MapTool

(***************************************************************************)
(* processRequiredActions (src/unnamed/part_001, 84-368): the tool calls   *)
(* of one batch of required actions.  getCachedTools, the tool manifest,   *)
(* loadTools, the action service and redactMessage are not part of the     *)
(* sources; they are modelled from the specification (sections 4.2, 4.3,   *)
(* 4.5 and 7).                                                             *)
(***************************************************************************)
MaxBatch ==
    2
\* the trimLength handleToolError gives redactMessage (line 349)
REDACT_LENGTH ==
    256
\* longer than REDACT_LENGTH
LongLength ==
    REDACT_LENGTH + 4

S_image_vision ==
    <<"i","m","a","g","e","_","v","i","s","i","o","n">>
T_nope ==
    <<"n","o","p","e">>
S_No_image_details_found ==
    <<"N","o"," ","i","m","a","g","e"," ","d","e","t","a","i","l","s"," ","f","o","u","n","d",".">>
S_Error_processing_tool ==
    <<"E","r","r","o","r"," ","p","r","o","c","e","s","s","i","n","g"," ","t","o","o","l"," ">>
S_colon_space ==
    <<":"," ">>
V_a_cat ==
    <<"a"," ","c","a","t">>
R_ok ==
    <<"o","k">>
\* an error message longer than REDACT_LENGTH
M_long ==
    [k \in 1..LongLength |-> "e"]

\* the toolkits of the manifest, the cached tool definitions and the plain
\* entries of the manifest
toolDefinitions ==
    Registry \cup {T_ka_x, T_kb_y}
manifestToolMap ==
    Registry \cup {K_ka, K_kb}

\* redactMessage(str, trimLength): the message cut to trimLength
redactMessage(str, trimLength) ==
    IF Len(str) <= trimLength THEN str ELSE SubSeq(str, 1, trimLength)

\* lines 96-106: what the map callback returns for toolName, given the
\* toolkits seen so far: the name, a toolkit key, or undefined
mapToolName(toolName, seen) ==
    LET scan[k \in 0..Len(toolkits)] ==
            IF k = 0 THEN [kind |-> "none", key |-> <<>>]
            ELSE IF scan[k - 1].kind # "none" THEN scan[k - 1]
            ELSE IF toolkits[k].pluginKey \in seen
                 THEN [kind |-> "undefined", key |-> <<>>]
            ELSE IF StartsWith(toolName, toolkits[k].pluginKey \o S_underscore)
                 THEN [kind |-> "key", key |-> toolkits[k].pluginKey]
            ELSE scan[k - 1]
    IN  IF toolName \in toolDefinitions /\ toolName \notin manifestToolMap
        THEN IF scan[Len(toolkits)].kind = "none"
             THEN [kind |-> "name", key |-> toolName]
             ELSE scan[Len(toolkits)]
        ELSE [kind |-> "name", key |-> toolName]

\* lines 91-108: the tools handed to loadTools
toolsToLoad(actions) ==
    LET m[k \in 0..Len(actions)] ==
            IF k = 0 THEN [seen |-> {}, tools |-> <<>>]
            ELSE LET r == mapToolName(actions[k].tool, m[k - 1].seen)
                 IN  [seen  |-> IF r.kind = "key" THEN m[k - 1].seen \cup {r.key}
                                ELSE m[k - 1].seen,
                      tools |-> IF r.kind = "undefined" THEN m[k - 1].tools
                                ELSE Append(m[k - 1].tools, r.key)]
    IN  m[Len(actions)].tools

\* a required action: the tool, the call id and the input
RequiredAction(tool, id) ==
    [tool |-> tool, toolCallId |-> id, toolInput |-> [type |-> "object", input |-> "q"],
     output |-> <<>>]

\* a tool output
ToolOutput(id, output) ==
    [tool_call_id |-> id, output |-> output]
NoOutput ==
    [tool_call_id |-> 0, output |-> <<>>]

\* an entry of promises: the call it was pushed for (i), what it waits on, and
\* the output it is fulfilled with
PendingPromise(i, kind) ==
    [call |-> i, kind |-> kind, state |-> "pending", value |-> NoOutput]
\* a tool promise whose handler waits in sleep(500), with what it will return
SleepingPromise(i, kind, value) ==
    [call |-> i, kind |-> kind, state |-> "sleeping", value |-> value]
FulfilledPromise(i, kind, value) ==
    [call |-> i, kind |-> kind, state |-> "fulfilled", value |-> value]

\* lines 342-351
handleToolErrorUntrimmed(currentAction, message) ==
    ToolOutput(currentAction.toolCallId,
               S_Error_processing_tool \o currentAction.tool \o S_colon_space \o message)
handleToolError(currentAction, message) ==
    ToolOutput(currentAction.toolCallId,
               S_Error_processing_tool \o currentAction.tool \o S_colon_space
                   \o redactMessage(message, REDACT_LENGTH))

\* lines 153-163: the tool call handed to the transcript
FunctionToolCall(currentAction, output, action) ==
    [function |-> [name |-> currentAction.tool, arguments |-> currentAction.toolInput,
                   output |-> output],
     id |-> currentAction.toolCallId, type |-> "function", progress |-> 1,
     action |-> action]

\* line 169: the text that follows the tool's name, held as one piece
S_displayed_an_image ==
    <<" displayed an image. All generated images are already plainly visible, so don't repeat the descriptions in detail. Do not list download links as they are available in the UI already. The user may download the images by clicking on them, but do not mention anything about downloading to the user.">>

\* the tool's own output is handed on
rawToolOutput(currentAction, output) ==
    output

\* lines 167-169: toolCall.function.output of an image-generation tool
imageToolOutput(currentAction, output) ==
    currentAction.tool \o S_displayed_an_image

\* lines 182-185 (imageDetails): the properties of the image output and those
\* of the tool input
ImageFile(imageOutput, toolInput) ==
    [imageOutput |-> imageOutput, toolInput |-> toolInput]

\* lines 53-76: what processVisionRequest resolves with
processVisionRequest(c, currentAction) ==
    ToolOutput(currentAction.toolCallId,
               IF c.vision = "none" THEN S_No_image_details_found
               ELSE IF c.vision = "empty" THEN S_No_image_details_found
               ELSE V_a_cat)

\* actionSets: first the array, then the {domainMap, processedDomains} object
ActionSetsArray(items) ==
    [kind |-> "array", items |-> items, domainMap |-> <<>>, processedDomains |-> <<>>]
ActionSetsMaps(dmap, processed) ==
    [kind |-> "maps", items |-> <<>>, domainMap |-> dmap, processedDomains |-> processed]

\* line 223: actionSets.length; the {domainMap, processedDomains} object has no
\* length, and undefined is falsy as 0 is
actionSetsLength(a) ==
    IF a.kind = "array" THEN Len(a.items) ELSE 0

\* lines 234-289 for one action set: the collaborator calls in order, and how
\* the iteration ends
compileActionUnmatched(c, action) ==
    LET validationResult == validateAndParseOpenAPISpec(action.metadata.raw_spec)
        id == action.action_id
        parsed == << [op |-> "domainParser", id |-> id],
                     [op |-> "isActionDomainAllowed", id |-> id] >>
        validated == parsed \o << [op |-> "validateAndParseOpenAPISpec", id |-> id] >>
        matched == validated \o << [op |-> "validateActionDomain", id |-> id] >>
        built == matched \o << [op |-> "openapiToFunction", id |-> id],
                               [op |-> "decryptMetadata", id |-> id] >>
    IN  IF ~isActionDomainAllowed(action.metadata.domain, c.allowedDomains)
        THEN [end |-> "continue", calls |-> parsed]
        ELSE IF ~validationResult.spec \/ validationResult.serverUrl = <<>>
        THEN [end |-> "throw Invalid spec", calls |-> validated]
        ELSE IF ~action.metadata.decrypts
        THEN [end |-> "throw decryptMetadata", calls |-> built]
        ELSE [end |-> "set", calls |-> built]

compileActionSwallowsDecrypt(c, action) ==
    LET validationResult == validateAndParseOpenAPISpec(action.metadata.raw_spec)
        id == action.action_id
        parsed == << [op |-> "domainParser", id |-> id],
                     [op |-> "isActionDomainAllowed", id |-> id] >>
        validated == parsed \o << [op |-> "validateAndParseOpenAPISpec", id |-> id] >>
        matched == validated \o << [op |-> "validateActionDomain", id |-> id] >>
        built == matched \o << [op |-> "openapiToFunction", id |-> id],
                               [op |-> "decryptMetadata", id |-> id] >>
    IN  IF ~isActionDomainAllowed(action.metadata.domain, c.allowedDomains)
        THEN [end |-> "continue", calls |-> parsed]
        ELSE IF ~validationResult.spec \/ validationResult.serverUrl = <<>>
        THEN [end |-> "throw Invalid spec", calls |-> validated]
        ELSE IF ~validateActionDomain(action.metadata.domain, validationResult.serverUrl)
        THEN [end |-> "continue", calls |-> matched]
        ELSE IF ~action.metadata.decrypts
        THEN [end |-> "set", calls |-> built]
        ELSE [end |-> "set", calls |-> built]

compileAction(c, action) ==
    LET validationResult == validateAndParseOpenAPISpec(action.metadata.raw_spec)
        id == action.action_id
        parsed == << [op |-> "domainParser", id |-> id],
                     [op |-> "isActionDomainAllowed", id |-> id] >>
        validated == parsed \o << [op |-> "validateAndParseOpenAPISpec", id |-> id] >>
        matched == validated \o << [op |-> "validateActionDomain", id |-> id] >>
        built == matched \o << [op |-> "openapiToFunction", id |-> id],
                               [op |-> "decryptMetadata", id |-> id] >>
    IN  IF ~isActionDomainAllowed(action.metadata.domain, c.allowedDomains)
        THEN [end |-> "continue", calls |-> parsed]
        ELSE IF ~validationResult.spec \/ validationResult.serverUrl = <<>>
        THEN [end |-> "throw Invalid spec", calls |-> validated]
        ELSE IF ~validateActionDomain(action.metadata.domain, validationResult.serverUrl)
        THEN [end |-> "continue", calls |-> matched]
        ELSE IF ~action.metadata.decrypts
        THEN [end |-> "throw decryptMetadata", calls |-> built]
        ELSE [end |-> "set", calls |-> built]

\* lines 295-317: the action set and request builder for a tool name, if any
matchAction(a, toolName) ==
    LET current == currentDomain(a.domainMap, toolName)
        found == current # <<>> /\ MapHas(a.processedDomains, current)
        entry == MapGet(a.processedDomains, current)
        functionName == ReplaceFirst(toolName, actionDelimiter \o current, <<>>)
    IN  IF found /\ functionName \in entry.requestBuilders
        THEN [found |-> TRUE, action |-> entry.action]
        ELSE [found |-> FALSE, action |-> GoodX]

\* the action tools built earlier in the run are not looked at
isResolvedInToolMap(tmap, amap, toolName) ==
    InToolMap(tmap, toolName)

\* line 147: ToolMap[currentAction.tool] ?? ActionToolMap[currentAction.tool]
isResolved(tmap, amap, toolName) ==
    InToolMap(tmap, toolName) \/ MapHas(amap, toolName)

\* lines 338-362: the call of the tool for requiredActions[i]: the input it
\* gets, the promise pushed, the call noted
startCall(c, st, i) ==
    LET currentAction == st.actions[i]
        toolInput == IF currentAction.tool = S_calculator
                     THEN [type |-> "string", input |-> currentAction.toolInput.input]
                     ELSE currentAction.toolInput
        called == [currentAction EXCEPT !.toolInput = toolInput]
    IN  [st EXCEPT
            !.actions = [st.actions EXCEPT ![i] = called],
            !.promises = Append(st.promises,
                IF currentAction.tool \in c.throwsSync
                THEN FulfilledPromise(i, "tool", handleToolError(called, M_boom))
                ELSE PendingPromise(i, "tool")),
            !.log = IF currentAction.tool \in c.throwsSync
                    THEN st.log \o << [op |-> "_call", id |-> i],
                                      [op |-> "rejected", id |-> i, value |-> M_boom] >>
                    ELSE Append(st.log, [op |-> "_call", id |-> i])]

\* lines 141-363 from iteration `from` on, up to the next await: the loop
\* runs through the calls whose tool is at hand and stops at the first one
\* that has to wait for loadActionSets or createActionTool, or at its end
runLoop(c, tmap, amap, a, from, st0) ==
    LET n == Len(st0.actions)
        step(st, i) ==
            LET currentAction == st.actions[i]
            IN  IF currentAction.tool = S_image_vision
                THEN [st EXCEPT !.promises = Append(st.promises, PendingPromise(i, "vision"))]
                ELSE IF isResolved(tmap, amap, currentAction.tool)
                THEN startCall(c, st, i)
                ELSE IF actionSetsLength(a) = 0
                THEN [st EXCEPT !.at = i, !.stop = "loadActionSets",
                                !.log = Append(st.log, [op |-> "loadActionSets", id |-> i])]
                ELSE IF matchAction(a, currentAction.tool).found
                THEN [st EXCEPT !.at = i, !.stop = "createActionTool",
                                !.log = Append(st.log,
                                    [op |-> "createActionTool",
                                     id |-> matchAction(a, currentAction.tool).action.action_id,
                                     name |-> currentAction.tool])]
                ELSE st
        run[i \in (from - 1)..n] ==
            IF i = from - 1 THEN [st0 EXCEPT !.at = n + 1, !.stop = "end"]
            ELSE IF run[i - 1].stop # "end" THEN run[i - 1]
            ELSE step(run[i - 1], i)
    IN  run[n]

\* what processRequiredActions resolved or rejected with
NoOutputs ==
    [kind |-> "none", outputs |-> <<>>]
ReturnedOutputs(outputs) ==
    [kind |-> "returned", outputs |-> outputs]
RejectedWith(error) ==
    [kind |-> error, outputs |-> <<>>]

NotCompiling ==
    [cursor |-> 0, sets |-> <<>>, domainMap |-> <<>>, processedDomains |-> <<>>]

\* the loop goes on from iteration `from` with the promises and log given
resumeLoop(from, proms, log) ==
    LET run == runLoop(client, ToolMap, ActionToolMap', actionSets', from,
                       [actions |-> requiredActions, promises |-> proms, log |-> log,
                        at |-> 0, stop |-> "end"])
    IN  /\ requiredActions' = run.actions
        /\ promises' = run.promises
        /\ praLog' = run.log
        /\ index' = run.at
        /\ praPc' = IF run.stop = "end" THEN "joining" ELSE run.stop

\* lines 84-90: up to getCachedTools
PraStart ==
    /\ praPc = "start"
    /\ praPc' = "getCachedTools"
    /\ praLog' = Append(praLog, [op |-> "getCachedTools", id |-> 0])
    /\ UNCHANGED <<client, requiredActions, ToolMap, index, promises, actionSets, compiling,
                   ActionToolMap, isActionTool, contentData, tool_outputs>>
    /\ UNCHANGED <<gateVars, loadVars, tokenVars>>

\* lines 90-126: the tool definitions arrived; the tools to load; loadTools
PraToolsCached ==
    /\ praPc = "getCachedTools"
    /\ praPc' = "loadTools"
    /\ praLog' = Append(praLog, [op |-> "loadTools", id |-> Len(toolsToLoad(requiredActions))])
    /\ UNCHANGED <<client, requiredActions, ToolMap, index, promises, actionSets, compiling,
                   ActionToolMap, isActionTool, contentData, tool_outputs>>
    /\ UNCHANGED <<gateVars, loadVars, tokenVars>>

\* lines 110-141: loadTools resolved; the loop starts
PraToolsLoaded ==
    /\ praPc = "loadTools"
    /\ ToolMap' = loadTools(toolsToLoad(requiredActions))
    /\ UNCHANGED <<ActionToolMap, actionSets>>
    /\ LET run == runLoop(client, ToolMap', ActionToolMap, actionSets, 1,
                          [actions |-> requiredActions, promises |-> promises,
                           log |-> praLog, at |-> 0, stop |-> "end"])
       IN  /\ requiredActions' = run.actions
           /\ promises' = run.promises
           /\ praLog' = run.log
           /\ index' = run.at
           /\ praPc' = IF run.stop = "end" THEN "joining" ELSE run.stop
    /\ UNCHANGED <<client, compiling, isActionTool, contentData, tool_outputs>>
    /\ UNCHANGED <<gateVars, loadVars, tokenVars>>

\* lines 224-234: loadActionSets resolved; with no action set the maps stay
\* empty and the call is skipped (line 307)
PraActionSetsLoaded ==
    /\ praPc = "loadActionSets"
    /\ UNCHANGED ActionToolMap
    /\ IF Len(client.actionSets) = 0
       THEN /\ actionSets' = ActionSetsMaps(<<>>, <<>>)
            /\ UNCHANGED compiling
            /\ resumeLoop(index + 1, promises, praLog)
       ELSE /\ actionSets' = ActionSetsArray(client.actionSets)
            /\ compiling' = [NotCompiling EXCEPT !.cursor = 1, !.sets = client.actionSets]
            /\ praPc' = "compiling"
            /\ UNCHANGED <<requiredActions, promises, praLog, index>>
    /\ UNCHANGED <<client, ToolMap, isActionTool, contentData, tool_outputs>>
    /\ UNCHANGED <<gateVars, loadVars, tokenVars>>

\* lines 234-317: one action set; after the last one the maps replace the
\* array, the tool name is matched, and createActionTool is called or the
\* call is skipped
PraCompile ==
    /\ praPc = "compiling"
    /\ UNCHANGED ActionToolMap
    /\ LET action == compiling.sets[compiling.cursor]
           domain == domainParser(action.metadata.domain)
           done == compileAction(client, action)
           dmap == MapSet(compiling.domainMap, domain, action)
           processed == IF done.end = "set"
                        THEN MapSet(compiling.processedDomains, domain,
                                    [action |-> action,
                                     requestBuilders |->
                                         openapiToFunction(validateAndParseOpenAPISpec(action.metadata.raw_spec))])
                        ELSE compiling.processedDomains
           last == compiling.cursor = Len(compiling.sets)
           maps == ActionSetsMaps(dmap, processed)
           toolName == requiredActions[index].tool
       IN  IF done.end \in {"throw Invalid spec", "throw decryptMetadata"}
           THEN /\ praPc' = "threw"
                /\ tool_outputs' = RejectedWith(done.end)
                /\ praLog' = praLog \o done.calls
                /\ compiling' = [compiling EXCEPT !.domainMap = dmap]
                /\ UNCHANGED <<actionSets, requiredActions, promises, index>>
           ELSE IF ~last
           THEN /\ compiling' = [compiling EXCEPT !.cursor = @ + 1, !.domainMap = dmap,
                                                  !.processedDomains = processed]
                /\ praLog' = praLog \o done.calls
                /\ UNCHANGED <<praPc, tool_outputs, actionSets, requiredActions, promises, index>>
           ELSE /\ compiling' = NotCompiling
                /\ actionSets' = maps
                /\ UNCHANGED tool_outputs
                /\ IF matchAction(maps, toolName).found
                   THEN /\ praPc' = "createActionTool"
                        /\ praLog' = (praLog \o done.calls)
                                       \o << [op |-> "createActionTool",
                                              id |-> matchAction(maps, toolName).action.action_id,
                                              name |-> toolName] >>
                        /\ UNCHANGED <<requiredActions, promises, index>>
                   ELSE resumeLoop(index + 1, promises, praLog \o done.calls)
    /\ UNCHANGED <<client, ToolMap, isActionTool, contentData>>
    /\ UNCHANGED <<gateVars, loadVars, tokenVars>>

\* lines 320-363: createActionTool resolved; the tool is kept and called, and
\* the loop goes on
PraToolCreated ==
    /\ praPc = "createActionTool"
    /\ LET toolName == requiredActions[index].tool
           tool == createActionTool(matchAction(actionSets, toolName).action, toolName)
       IN  IF tool.kind = "null"
           THEN /\ praPc' = "threw"
                /\ tool_outputs' = RejectedWith("invalid_action")
                /\ UNCHANGED <<isActionTool, ActionToolMap, actionSets, requiredActions,
                               promises, praLog, index>>
           ELSE /\ isActionTool' = TRUE
                /\ ActionToolMap' = MapSet(ActionToolMap, toolName, tool.tool)
                /\ UNCHANGED <<actionSets, tool_outputs>>
                /\ LET run == runLoop(client, ToolMap, ActionToolMap', actionSets, index,
                                      [actions |-> requiredActions, promises |-> promises,
                                       log |-> praLog, at |-> 0, stop |-> "end"])
                   IN  /\ requiredActions' = run.actions
                       /\ promises' = run.promises
                       /\ praLog' = run.log
                       /\ index' = run.at
                       /\ praPc' = IF run.stop = "end" THEN "joining" ELSE run.stop
    /\ UNCHANGED <<client, ToolMap, compiling, contentData>>
    /\ UNCHANGED <<gateVars, loadVars, tokenVars>>

\* lines 149-217 (handleToolOutput): the tool's _call resolved with output.
\* For an image-generation tool (167-180) the tool call goes to the transcript
\* with the instruction as its output and the handler sleeps; for any other
\* tool (204-216) the tool call goes to the transcript and the handler returns
ToolResolves(p, output) ==
    /\ p \in 1..Len(promises)
    /\ promises[p].state = "pending"
    /\ promises[p].kind = "tool"
    /\ LET i == promises[p].call
           currentAction == requiredActions[i]
           toolCallIndex == client.mappedOrder[currentAction.toolCallId]
       IN  /\ requiredActions' = [requiredActions EXCEPT ![i].output = output]
           /\ IF currentAction.tool \in imageGenTools
              THEN LET text == imageToolOutput(currentAction, output)
                   IN  /\ contentData' = Append(contentData,
                              [type |-> "tool_call", index |-> toolCallIndex,
                               tool_call |-> FunctionToolCall(currentAction, text, isActionTool)])
                       /\ promises' = [promises EXCEPT ![p] =
                              SleepingPromise(i, "tool", ToolOutput(currentAction.toolCallId, text))]
                       /\ UNCHANGED praLog
              ELSE /\ contentData' = Append(contentData,
                          [type |-> "tool_call", index |-> toolCallIndex,
                           tool_call |-> FunctionToolCall(currentAction, output, isActionTool)])
                   /\ promises' = [promises EXCEPT ![p] =
                          FulfilledPromise(i, "tool", ToolOutput(currentAction.toolCallId, output))]
                   /\ praLog' = Append(praLog, [op |-> "resolved", id |-> i, value |-> output])
    /\ UNCHANGED <<client, praPc, ToolMap, index, actionSets, compiling, ActionToolMap,
                   isActionTool, tool_outputs>>
    /\ UNCHANGED <<gateVars, loadVars, tokenVars>>

\* lines 180-202: sleep(500) is over; the image file goes to the transcript
\* at the tool call's index and the handler returns the instruction
ImageFileAdded(p) ==
    /\ p \in 1..Len(promises)
    /\ promises[p].state = "sleeping"
    /\ LET i == promises[p].call
           currentAction == requiredActions[i]
           toolCallIndex == client.mappedOrder[currentAction.toolCallId]
       IN  /\ contentData' = Append(contentData,
                  [type |-> "image_file", index |-> toolCallIndex,
                   image_file |-> ImageFile(currentAction.output, currentAction.toolInput)])
           /\ promises' = [promises EXCEPT ![p] =
                  FulfilledPromise(i, "tool", promises[p].value)]
           /\ praLog' = Append(praLog, [op |-> "resolved", id |-> i,
                                        value |-> promises[p].value.output])
    /\ UNCHANGED <<client, praPc, requiredActions, ToolMap, index, actionSets, compiling,
                   ActionToolMap, isActionTool, tool_outputs>>
    /\ UNCHANGED <<gateVars, loadVars, tokenVars>>

\* lines 342-351 and 357 (handleToolError): the tool's _call rejected
ToolRejects(p, message) ==
    /\ p \in 1..Len(promises)
    /\ promises[p].state = "pending"
    /\ promises[p].kind = "tool"
    /\ LET i == promises[p].call
       IN  /\ promises' = [promises EXCEPT ![p] =
                  FulfilledPromise(i, "tool", handleToolError(requiredActions[i], message))]
           /\ praLog' = Append(praLog, [op |-> "rejected", id |-> i, value |-> message])
    /\ UNCHANGED <<client, praPc, requiredActions, ToolMap, index, actionSets, compiling,
                   ActionToolMap, isActionTool, contentData, tool_outputs>>
    /\ UNCHANGED <<gateVars, loadVars, tokenVars>>

\* lines 53-76: processVisionRequest resolved
VisionResolves(p) ==
    /\ p \in 1..Len(promises)
    /\ promises[p].state = "pending"
    /\ promises[p].kind = "vision"
    /\ LET i == promises[p].call
           out == processVisionRequest(client, requiredActions[i])
       IN  /\ promises' = [promises EXCEPT ![p] = FulfilledPromise(i, "vision", out)]
           /\ praLog' = Append(praLog, [op |-> "resolved", id |-> i, value |-> out.output])
    /\ UNCHANGED <<client, praPc, requiredActions, ToolMap, index, actionSets, compiling,
                   ActionToolMap, isActionTool, contentData, tool_outputs>>
    /\ UNCHANGED <<gateVars, loadVars, tokenVars>>

\* the batch is returned as soon as one of its promises is fulfilled
PraReturnOnFirst ==
    /\ praPc = "joining"
    /\ \E p \in 1..Len(promises) : promises[p].state = "fulfilled"
    /\ praPc' = "returned"
    /\ tool_outputs' = ReturnedOutputs([p \in 1..Len(promises) |-> promises[p].value])
    /\ UNCHANGED <<client, requiredActions, ToolMap, index, promises, actionSets, compiling,
                   ActionToolMap, isActionTool, contentData, praLog>>
    /\ UNCHANGED <<gateVars, loadVars, tokenVars>>

\* lines 365-367: Promise.all(promises) resolved
PraReturn ==
    /\ praPc = "joining"
    /\ \A p \in 1..Len(promises) : promises[p].state = "fulfilled"
    /\ praPc' = "returned"
    /\ tool_outputs' = ReturnedOutputs([p \in 1..Len(promises) |-> promises[p].value])
    /\ UNCHANGED <<client, requiredActions, ToolMap, index, promises, actionSets, compiling,
                   ActionToolMap, isActionTool, contentData, praLog>>
    /\ UNCHANGED <<gateVars, loadVars, tokenVars>>

\* the batches: every sequence of up to MaxBatch calls of a registry tool,
\* the vision tool, an image-generation tool, two action tools, an unknown
\* tool and two toolkit tools;
\* the call ids are the positions
PraTools ==
    {S_calculator, S_image_vision, S_dalle, A_get_x, A_put_ax, T_nope, T_ka_x, T_kb_y}
Batches ==
    UNION { { [k \in 1..n |-> RequiredAction(names[k], k)] : names \in [1..n -> PraTools] } :
            n \in 1..MaxBatch }

\* what the tools' own _call may resolve with and reject with
PraResults ==
    {R_ok}
PraErrors ==
    {M_long}

PraClients ==
    { [actionSets |-> s, allowedDomains |-> AllowedDomains, throwsSync |-> t, vision |-> v,
       mappedOrder |-> [k \in 1..(MaxBatch + 1) |-> k - 1]] :
        s \in ActionSetLists, t \in {{}, {S_calculator}}, v \in {"none", "content"} }

NoClient ==
    [actionSets |-> <<>>, allowedDomains |-> {}, throwsSync |-> {}, vision |-> "none",
     mappedOrder |-> <<>>]

PraLocals ==
    /\ ToolMap = <<>>
    /\ index = 0
    /\ promises = <<>>
    /\ actionSets = ActionSetsArray(<<>>)
    /\ compiling = NotCompiling
    /\ ActionToolMap = <<>>
    /\ isActionTool = FALSE
    /\ contentData = <<>>
    /\ praLog = <<>>
    /\ tool_outputs = NoOutputs

PraIdle ==
    /\ client = NoClient
    /\ requiredActions = <<>>
    /\ praPc = "idle"
    /\ PraLocals

PraInit ==
    /\ client \in PraClients
    /\ requiredActions \in Batches
    /\ praPc = "start"
    /\ PraLocals

PraNext ==
    \/ PraStart
    \/ PraToolsCached
    \/ PraToolsLoaded
    \/ PraActionSetsLoaded
    \/ PraCompile
    \/ PraToolCreated
    \/ \E p \in 1..MaxBatch, r \in PraResults : ToolResolves(p, r)
    \/ \E p \in 1..MaxBatch, m \in PraErrors : ToolRejects(p, m)
    \/ \E p \in 1..MaxBatch : VisionResolves(p)
    \/ \E p \in 1..MaxBatch : ImageFileAdded(p)
    \/ PraReturn

\* ---------------------------------------------------------------------
\* mapTokenResponse (packages/api/src/mcp/oauth/utils)

\* how far the clock may advance during one call
MaxDrift ==
    1

K_access_token ==
    <<"a","c","c","e","s","s","_","t","o","k","e","n">>
K_token_type ==
    <<"t","o","k","e","n","_","t","y","p","e">>
K_scope ==
    <<"s","c","o","p","e">>
K_expires_in ==
    <<"e","x","p","i","r","e","s","_","i","n">>
K_refresh_token ==
    <<"r","e","f","r","e","s","h","_","t","o","k","e","n">>
K_authed_user ==
    <<"a","u","t","h","e","d","_","u","s","e","r">>
P_authed_user_access_token ==
    <<"a","u","t","h","e","d","_","u","s","e","r",".","a","c","c","e","s","s","_","t","o","k","e","n">>
P_authed_user_token_type ==
    <<"a","u","t","h","e","d","_","u","s","e","r",".","t","o","k","e","n","_","t","y","p","e">>
P_authed_user_expires_in ==
    <<"a","u","t","h","e","d","_","u","s","e","r",".","e","x","p","i","r","e","s","_","i","n">>
P_authed_user_scope ==
    <<"a","u","t","h","e","d","_","u","s","e","r",".","s","c","o","p","e">>
P_authed_user_refresh_token ==
    <<"a","u","t","h","e","d","_","u","s","e","r",".","r","e","f","r","e","s","h","_","t","o","k","e","n">>
S_Bearer ==
    <<"B","e","a","r","e","r">>
S_comma_space ==
    <<","," ">>
V_tokA ==
    <<"t","o","k","A">>
V_tokN ==
    <<"t","o","k","N">>
V_mac ==
    <<"m","a","c">>
V_user ==
    <<"u","s","e","r">>
V_read ==
    <<"r","e","a","d">>
V_chat ==
    <<"c","h","a","t">>
V_ref ==
    <<"r","e","f">>
S_mapping_failed ==
    <<"T","o","k","e","n"," ","r","e","s","p","o","n","s","e"," ","m","a","p","p","i","n","g"," ","f","a","i","l","e","d",":"," ","a","c","c","e","s","s","_","t","o","k","e","n"," ","n","o","t"," ","f","o","u","n","d"," ","a","t"," ","p","a","t","h"," ","\"">>
S_response_keys ==
    <<"\"","."," ","R","e","s","p","o","n","s","e"," ","k","e","y","s",":"," ">>

\* JavaScript values: undefined, null, strings, numbers and objects; an object
\* is the sequence of its own properties, in insertion order
JsUndefined ==
    [t |-> "undefined", s |-> <<>>, n |-> 0, o |-> <<>>]
JsNull ==
    [t |-> "null", s |-> <<>>, n |-> 0, o |-> <<>>]
JsString(s) ==
    [t |-> "string", s |-> s, n |-> 0, o |-> <<>>]
JsNumber(n) ==
    [t |-> "number", s |-> <<>>, n |-> n, o |-> <<>>]
JsObject(properties) ==
    [t |-> "object", s |-> <<>>, n |-> 0, o |-> properties]

\* !!v
truthy(v) ==
    CASE v.t = "undefined" -> FALSE
      [] v.t = "null" -> FALSE
      [] v.t = "string" -> v.s # <<>>
      [] v.t = "number" -> v.n # 0
      [] v.t = "object" -> TRUE

\* obj[key] for an object
property(obj, key) ==
    LET hits == { k \in 1..Len(obj.o) : obj.o[k].key = key }
    IN  IF hits = {} THEN JsUndefined ELSE obj.o[MinOf(hits)].value

\* Object.keys(obj)
ObjectKeys(obj) ==
    [k \in 1..Len(obj.o) |-> obj.o[k].key]

\* path.split('.')
split(path, separator) ==
    LET parts[k \in 0..Len(path)] ==
            IF k = 0 THEN << <<>> >>
            ELSE LET before == parts[k - 1]
                 IN  IF path[k] = separator THEN Append(before, <<>>)
                     ELSE [before EXCEPT ![Len(before)] = Append(@, path[k])]
    IN  parts[Len(path)]

\* keys.join(', ')
join(items, separator) ==
    LET joined[k \in 0..Len(items)] ==
            IF k = 0 THEN <<>>
            ELSE IF k = 1 THEN items[1]
            ELSE joined[k - 1] \o separator \o items[k]
    IN  joined[Len(items)]

\* a string or a number on the way ends the walk and is returned
getNestedValueLoose(obj, path) ==
    LET keys == split(path, ".")
        walk[k \in 0..Len(keys)] ==
            IF k = 0 THEN [returned |-> FALSE, current |-> obj]
            ELSE LET before == walk[k - 1]
                 IN  IF before.returned THEN before
                     ELSE IF before.current.t \in {"null", "undefined"}
                          THEN [returned |-> TRUE, current |-> JsUndefined]
                     ELSE IF before.current.t # "object"
                          THEN [returned |-> TRUE, current |-> before.current]
                     ELSE [returned |-> FALSE, current |-> property(before.current, keys[k])]
    IN  walk[Len(keys)].current

\* lines 235-250
getNestedValue(obj, path) ==
    LET keys == split(path, ".")
        walk[k \in 0..Len(keys)] ==
            IF k = 0 THEN [returned |-> FALSE, current |-> obj]
            ELSE LET before == walk[k - 1]
                 IN  IF before.returned THEN before
                     ELSE IF before.current.t \in {"null", "undefined"}
                          THEN [returned |-> TRUE, current |-> JsUndefined]
                     ELSE IF before.current.t # "object"
                          THEN [returned |-> TRUE, current |-> JsUndefined]
                     ELSE [returned |-> FALSE, current |-> property(before.current, keys[k])]
    IN  walk[Len(keys)].current

\* lines 279-296: the optional field read from its mapped path, or from the
\* top-level field of the same name when the mapping has no path for it
topLevelThenMapped(response, mapping, field) ==
    IF truthy(property(response, field)) \/ mapping[field] = <<>>
    THEN property(response, field)
    ELSE getNestedValue(response, mapping[field])
mappedThenTopLevel(response, mapping, field) ==
    IF mapping[field] # <<>> /\ truthy(getNestedValue(response, mapping[field]))
    THEN getNestedValue(response, mapping[field])
    ELSE property(response, field)
mappedOrTopLevel(response, mapping, field) ==
    IF mapping[field] # <<>>
    THEN getNestedValue(response, mapping[field])
    ELSE property(response, field)

\* lines 270-275: the error thrown when there is no access token
MappingFailedWithoutKeys(response, mapping) ==
    [kind |-> "error",
     message |-> S_mapping_failed \o mapping[K_access_token] \o S_response_keys]
MappingFailed(response, mapping) ==
    [kind |-> "error",
     message |-> S_mapping_failed \o mapping[K_access_token] \o S_response_keys
                     \o join(ObjectKeys(response), S_comma_space)]

\* lines 298-306, 311-313: the record before expires_in is looked at
tokensObtainedAt(response, mapping, time) ==
    LET tokenType == mappedOrTopLevel(response, mapping, K_token_type)
        scope == mappedOrTopLevel(response, mapping, K_scope)
    IN  [kind |-> "tokens",
         access_token |-> getNestedValue(response, mapping[K_access_token]),
         token_type |-> IF truthy(tokenType) THEN tokenType ELSE JsString(S_Bearer),
         obtained_at |-> JsNumber(time),
         scope |-> IF truthy(scope) THEN scope ELSE JsUndefined,
         expires_in |-> JsUndefined,
         expires_at |-> JsUndefined,
         refresh_token |-> JsUndefined]

\* lines 307-313: expires_in and expires_at, with the time of the second
\* Date.now(), and refresh_token
tokensCompletedWhenDefined(record, response, mapping, time) ==
    LET expiresIn == mappedOrTopLevel(response, mapping, K_expires_in)
        refreshToken == mappedOrTopLevel(response, mapping, K_refresh_token)
    IN  [record EXCEPT
            !.expires_in = IF expiresIn.t = "number" THEN expiresIn ELSE JsUndefined,
            !.expires_at = IF expiresIn.t = "number" THEN JsNumber(time + expiresIn.n * 1000)
                           ELSE JsUndefined,
            !.refresh_token = IF truthy(refreshToken) THEN refreshToken ELSE JsUndefined]
tokensCompleted(record, response, mapping, time) ==
    LET expiresIn == mappedOrTopLevel(response, mapping, K_expires_in)
        refreshToken == mappedOrTopLevel(response, mapping, K_refresh_token)
    IN  [record EXCEPT
            !.expires_in = IF truthy(expiresIn) THEN expiresIn ELSE JsUndefined,
            !.expires_at = IF truthy(expiresIn) THEN JsNumber(time + expiresIn.n * 1000)
                           ELSE JsUndefined,
            !.refresh_token = IF truthy(refreshToken) THEN refreshToken ELSE JsUndefined]

\* lines 261-306: the access token is looked up; without one the call throws,
\* with one the record is created with the time of the first Date.now()
MapTokenResponseTopLevelFallback ==
    /\ tokenPc = "start"
    /\ LET mapped == getNestedValue(tokenCall.response, tokenCall.mapping[K_access_token])
           accessToken == IF truthy(mapped) THEN mapped
                          ELSE property(tokenCall.response, K_access_token)
       IN  IF ~truthy(accessToken)
           THEN /\ tokenPc' = "threw"
                /\ tokens' = MappingFailed(tokenCall.response, tokenCall.mapping)
           ELSE /\ tokenPc' = "created"
                /\ tokens' = [tokensObtainedAt(tokenCall.response, tokenCall.mapping, clock)
                                 EXCEPT !.access_token = accessToken]
    /\ UNCHANGED <<tokenCall, clock, nestedCall, approvalCall>>
    /\ UNCHANGED <<gateVars, loadVars, praVars>>
MapTokenResponse ==
    /\ tokenPc = "start"
    /\ LET accessToken == getNestedValue(tokenCall.response, tokenCall.mapping[K_access_token])
       IN  IF ~truthy(accessToken)
           THEN /\ tokenPc' = "threw"
                /\ tokens' = MappingFailed(tokenCall.response, tokenCall.mapping)
           ELSE /\ tokenPc' = "created"
                /\ tokens' = tokensObtainedAt(tokenCall.response, tokenCall.mapping, clock)
    /\ UNCHANGED <<tokenCall, clock, nestedCall, approvalCall>>
    /\ UNCHANGED <<gateVars, loadVars, praVars>>

\* lines 307-324: the rest of the record, and the return
MapTokenResponseReturn ==
    /\ tokenPc = "created"
    /\ tokenPc' = "returned"
    /\ tokens' = tokensCompleted(tokens, tokenCall.response, tokenCall.mapping, clock)
    /\ UNCHANGED <<tokenCall, clock, nestedCall, approvalCall>>
    /\ UNCHANGED <<gateVars, loadVars, praVars>>

\* Date.now() moves on while the call runs
ClockTick ==
    /\ tokenPc \in {"start", "created"}
    /\ clock < MaxDrift
    /\ clock' = clock + 1
    /\ UNCHANGED <<tokenCall, tokenPc, tokens, nestedCall, approvalCall>>
    /\ UNCHANGED <<gateVars, loadVars, praVars>>

\* an object of the properties that are present
objectOf(entries) ==
    JsObject(SelectSeq(entries, LAMBDA e : e.value.t # "absent"))
Absent ==
    [t |-> "absent", s |-> <<>>, n |-> 0, o |-> <<>>]

\* what the nested authed_user of a response may be
NestedValues ==
    {Absent, JsNull, JsString(V_user)} \cup
    { objectOf(<< [key |-> K_access_token, value |-> a],
                  [key |-> K_token_type, value |-> t],
                  [key |-> K_expires_in, value |-> e],
                  [key |-> K_scope, value |-> s] >>) :
        a \in {Absent, JsString(<<>>), JsString(V_tokN), JsNumber(0)},
        t \in {Absent, JsString(V_user)},
        e \in {Absent, JsNumber(1)},
        s \in {Absent, JsString(V_chat)} }

\* the token responses
Responses ==
    { objectOf(<< [key |-> K_access_token, value |-> a],
                  [key |-> K_token_type, value |-> t],
                  [key |-> K_expires_in, value |-> e],
                  [key |-> K_scope, value |-> s],
                  [key |-> K_refresh_token, value |-> r],
                  [key |-> K_authed_user, value |-> u] >>) :
        a \in {Absent, JsString(V_tokA)},
        t \in {Absent, JsString(V_mac)},
        e \in {Absent, JsNumber(0), JsNumber(2)},
        s \in {Absent, JsString(V_read)},
        r \in {Absent, JsString(V_ref)},
        u \in NestedValues }

\* the mappings: a path for access_token, and for each other field a path or none
Mappings ==
    { (K_access_token :> a) @@ (K_token_type :> t) @@ (K_expires_in :> e)
        @@ (K_scope :> s) @@ (K_refresh_token :> r) :
        a \in {K_access_token, P_authed_user_access_token},
        t \in {<<>>, P_authed_user_token_type},
        e \in {<<>>, P_authed_user_expires_in},
        s \in {<<>>, P_authed_user_scope},
        r \in {<<>>, P_authed_user_refresh_token} }

NoTokens ==
    [kind |-> "none"]

\* getNestedValue called on its own: the objects, nested up to three deep
\* with strings, numbers and null in them, and the paths, written from up to
\* MaxDepth keys of which one is the empty key
MaxDepth ==
    3
K_a ==
    <<"a">>
K_b ==
    <<"b">>
V_v ==
    <<"v">>
Leaves ==
    {JsNull, JsString(V_v), JsNumber(0)}
FlatObjects ==
    { objectOf(<< [key |-> K_a, value |-> x], [key |-> K_b, value |-> y] >>) :
        x \in Leaves \cup {Absent}, y \in {Absent, JsString(V_v)} }
NestedObjects ==
    FlatObjects
        \cup { objectOf(<< [key |-> K_a, value |-> x], [key |-> K_b, value |-> JsString(V_v)] >>) :
                 x \in FlatObjects }
        \cup { objectOf(<< [key |-> K_a,
                            value |-> objectOf(<< [key |-> K_b, value |-> x] >>)] >>) :
                 x \in FlatObjects }
KeyLists ==
    UNION { [1..n -> {K_a, K_b, <<>>}] : n \in 1..MaxDepth }

NoApprovalCall ==
    [op |-> "none", toolName |-> <<>>, toolApproval |-> NoToolApproval, pattern |-> <<>>,
     state |-> "idle", value |-> FALSE, serverName |-> <<>>, passed |-> <<>>,
     dropParams |-> [defined |-> FALSE, items |-> <<>>]]

NoNestedCall ==
    [obj |-> JsUndefined, keys |-> <<>>, path |-> <<>>, state |-> "idle", value |-> JsUndefined]

\* lines 235-250, called with obj and path
GetNestedValue ==
    /\ nestedCall.state = "called"
    /\ nestedCall' = [nestedCall EXCEPT !.state = "returned",
                                        !.value = getNestedValue(nestedCall.obj, nestedCall.path)]
    /\ UNCHANGED <<tokenCall, tokenPc, tokens, clock, approvalCall>>
    /\ UNCHANGED <<gateVars, loadVars, praVars>>

NestedInit ==
    /\ nestedCall \in { [obj |-> o, keys |-> ks, path |-> join(ks, <<".">>),
                          state |-> "called", value |-> JsUndefined] :
                            o \in NestedObjects, ks \in KeyLists }
    /\ approvalCall = NoApprovalCall
    /\ tokenCall = [response |-> JsUndefined, mapping |-> <<>>]
    /\ tokenPc = "idle"
    /\ tokens = NoTokens
    /\ clock = 0

\* requiresApproval and matchesPattern called on their own: the tool names
\* (built-in ones, an MCP tool, a name that begins with "mcp:"), the patterns,
\* and the configurations with up to MaxPatterns patterns in each list
MaxPatterns ==
    2
T_mcp_colon_x ==
    <<"m","c","p",":","x">>
S_web_star ==
    <<"w","e","b","_","*">>
ToolNames ==
    {S_web_search, S_execute_code, T_calc, T_mcp_search, T_mcp_colon_x}
ApprovalPatterns ==
    {S_all, S_mcp_colon_star, S_web_search, S_web_star, T_mcp_search}
MatchPatterns ==
    ApprovalPatterns \cup {S_star, S_mcp_underscore_star, T_calc, S_execute_code}
PatternLists ==
    UNION { [1..n -> ApprovalPatterns] : n \in 0..MaxPatterns }
ApprovalConfigs ==
    {NoToolApproval}
        \cup { ToolApproval(required, <<>>, excl) :
                 required \in {"undefined", "false", "true"}, excl \in PatternLists }
        \cup { ToolApproval("array", reqPatterns, excl) :
                 reqPatterns \in PatternLists, excl \in PatternLists }

\* initialize.ts 123-162, called with toolName and toolApproval
RequiresApproval ==
    /\ approvalCall.state = "called"
    /\ approvalCall.op = "requiresApproval"
    /\ approvalCall' =
           [approvalCall EXCEPT !.state = "returned",
                                !.value = requiresApproval(approvalCall.toolName,
                                                           approvalCall.toolApproval)]
    /\ UNCHANGED <<tokenCall, tokenPc, tokens, clock, nestedCall>>
    /\ UNCHANGED <<gateVars, loadVars, praVars>>

\* initialize.ts 175-199, called with toolName and pattern
MatchesPattern ==
    /\ approvalCall.state = "called"
    /\ approvalCall.op = "matchesPattern"
    /\ approvalCall' =
           [approvalCall EXCEPT !.state = "returned",
                                !.value = matchesPattern(approvalCall.toolName,
                                                         approvalCall.pattern)]
    /\ UNCHANGED <<tokenCall, tokenPc, tokens, clock, nestedCall>>
    /\ UNCHANGED <<gateVars, loadVars, praVars>>

\* the names of the tools that are wrapped: those above, and MCP names with
\* nothing after the delimiter and with nothing before it
T_mcp_no_server ==
    <<"f","i","n","d",":",":",":","m","c","p",":",":",":">>
T_mcp_no_tool ==
    <<":",":",":","m","c","p",":",":",":","s","r","v">>
WrappedToolNames ==
    ToolNames \cup {T_mcp_no_server, T_mcp_no_tool}

\* part_001 379-382: wrapToolWithApproval({ tool, res }) up to the new _call;
\* serverName is a constant of the closure
WrapTool ==
    /\ approvalCall.state = "called"
    /\ approvalCall.op = "wrapToolWithApproval"
    /\ approvalCall' =
           [approvalCall EXCEPT !.state = "wrapped",
                                !.serverName = getToolServerName(approvalCall.toolName)]
    /\ UNCHANGED <<tokenCall, tokenPc, tokens, clock, nestedCall>>
    /\ UNCHANGED <<gateVars, loadVars, praVars>>

\* part_001 384-401: an invocation of the wrapped tool hands serverName to
\* initiateValidationFlow
InvokeWrapped ==
    /\ approvalCall.state = "wrapped"
    /\ Len(approvalCall.passed) < MaxCalls
    /\ approvalCall' =
           [approvalCall EXCEPT !.passed = Append(@, approvalCall.serverName)]
    /\ UNCHANGED <<tokenCall, tokenPc, tokens, clock, nestedCall>>
    /\ UNCHANGED <<gateVars, loadVars, praVars>>

\* openai/initialize.ts 18-36: shouldDisableNativeWebSearch(toolApproval);
\* Array.prototype.includes compares whole strings
shouldDisableNativeWebSearch(toolApproval) ==
    IF ~toolApproval.defined THEN FALSE
    ELSE IF \E k \in 1..Len(toolApproval.excluded) :
                toolApproval.excluded[k] = S_web_search
         THEN FALSE
    ELSE IF toolApproval.required = "true" THEN TRUE
    ELSE IF toolApproval.required = "array"
         THEN \E k \in 1..Len(toolApproval.requiredPatterns) :
                  toolApproval.requiredPatterns[k] = S_web_search
    ELSE FALSE

\* clientOptions.dropParams before line 158: undefined, or the list of the
\* Azure group (line 118)
P_temperature ==
    <<"t","e","m","p","e","r","a","t","u","r","e">>
DropParamsInputs ==
    { [defined |-> FALSE, items |-> <<>>],
      [defined |-> TRUE, items |-> <<>>],
      [defined |-> TRUE, items |-> <<P_temperature>>],
      [defined |-> TRUE, items |-> <<S_web_search, P_temperature>>] }

\* openai/initialize.ts 158-166 of initializeOpenAI
InitializeOpenAI ==
    /\ approvalCall.state = "called"
    /\ approvalCall.op = "initializeOpenAI"
    /\ LET disable == shouldDisableNativeWebSearch(approvalCall.toolApproval)
           before == approvalCall.dropParams
           listed == \E k \in 1..Len(before.items) : before.items[k] = S_web_search
       IN  approvalCall' =
               [approvalCall EXCEPT
                   !.state = "returned",
                   !.value = disable,
                   !.dropParams =
                       IF ~disable THEN before
                       ELSE [defined |-> TRUE,
                             items |-> IF listed THEN before.items
                                       ELSE Append(before.items, S_web_search)]]
    /\ UNCHANGED <<tokenCall, tokenPc, tokens, clock, nestedCall>>
    /\ UNCHANGED <<gateVars, loadVars, praVars>>

ApprovalInit ==
    /\ approvalCall \in
           { [NoApprovalCall EXCEPT !.op = "requiresApproval", !.state = "called",
                                    !.toolName = n, !.toolApproval = cfg] :
                n \in ToolNames, cfg \in ApprovalConfigs }
             \cup
           { [NoApprovalCall EXCEPT !.op = "matchesPattern", !.state = "called",
                                    !.toolName = n, !.pattern = p] :
                n \in ToolNames, p \in MatchPatterns }
             \cup
           { [NoApprovalCall EXCEPT !.op = "wrapToolWithApproval", !.state = "called",
                                    !.toolName = n] :
                n \in WrappedToolNames }
             \cup
           { [NoApprovalCall EXCEPT !.op = "initializeOpenAI", !.state = "called",
                                    !.toolApproval = cfg, !.dropParams = d] :
                cfg \in ApprovalConfigs, d \in DropParamsInputs }
    /\ tokenCall = [response |-> JsUndefined, mapping |-> <<>>]
    /\ tokenPc = "idle"
    /\ tokens = NoTokens
    /\ clock = 0
    /\ nestedCall = NoNestedCall

TokenIdle ==
    /\ tokenCall = [response |-> JsUndefined, mapping |-> <<>>]
    /\ tokenPc = "idle"
    /\ tokens = NoTokens
    /\ clock = 0
    /\ nestedCall = NoNestedCall
    /\ approvalCall = NoApprovalCall

TokenInit ==
    /\ tokenCall \in [response : Responses, mapping : Mappings]
    /\ tokenPc = "start"
    /\ tokens = NoTokens
    /\ clock = 0
    /\ nestedCall = NoNestedCall
    /\ approvalCall = NoApprovalCall

TokenNext ==
    \/ MapTokenResponse
    \/ MapTokenResponseReturn
    \/ ClockTick

vars ==
    <<pc, call, vid, meta, flows, nextId, now, aborted, trace, outcome,
      req, loadPc, filteredTools, loadedTools, agentTools, domainMap,
      processedActionSets, cursor, result, loadLog,
      client, praPc, requiredActions, ToolMap, index, promises, actionSets, compiling,
      ActionToolMap, isActionTool, contentData, praLog, tool_outputs,
      tokenCall, tokenPc, tokens, clock, nestedCall, approvalCall>>

Init ==
    GateInit /\ LoadIdle /\ PraIdle /\ TokenIdle

Next ==
    GateNext

Spec ==
    Init /\ [][Next]_vars

\* one call of loadAgentTools, from any of the requests
LoadSpecInit ==
    GateInit /\ LoadInit /\ PraIdle /\ TokenIdle

LoadSpec ==
    LoadSpecInit /\ [][LoadNext]_vars

\* one call of processRequiredActions, from any batch and client
PraSpecInit ==
    GateInit /\ LoadIdle /\ PraInit /\ TokenIdle

PraSpec ==
    PraSpecInit /\ [][PraNext]_vars

\* the request is cancelled while loadAgentTools or processRequiredActions
\* loads and compiles the action sets: the signal is set, and nothing else
\* changes by that
AbortRequest ==
    /\ aborted = {}
    /\ loadPc \in {"loadActionSets", "processing"} \/ praPc \in {"loadActionSets", "compiling"}
    /\ aborted' = Requests
    /\ UNCHANGED <<pc, call, vid, meta, flows, nextId, now, trace, outcome>>
    /\ UNCHANGED <<loadVars, praVars, tokenVars>>

\* one run of either function that compiles the stored action sets, with a
\* cancellation of the request at any moment of it
ActionsInit ==
    /\ GateInit
    /\ TokenIdle
    /\ \/ LoadInit /\ PraIdle
       \/ LoadIdle /\ PraInit

ActionsNext ==
    \/ LoadNext
    \/ PraNext
    \/ AbortRequest

ActionsSpec ==
    ActionsInit /\ [][ActionsNext]_vars

\* one call of mapTokenResponse, for any response and mapping
TokenSpecInit ==
    GateInit /\ LoadIdle /\ PraIdle /\ TokenInit

TokenSpec ==
    TokenSpecInit /\ [][TokenNext]_vars

\* one call of getNestedValue, for any object and path
NestedSpecInit ==
    GateInit /\ LoadIdle /\ PraIdle /\ NestedInit

NestedNext ==
    GetNestedValue

NestedSpec ==
    NestedSpecInit /\ [][NestedNext]_vars

\* one call of requiresApproval or of matchesPattern, for any arguments
ApprovalSpecInit ==
    GateInit /\ LoadIdle /\ PraIdle /\ ApprovalInit

ApprovalNext ==
    \/ RequiresApproval
    \/ MatchesPattern
    \/ WrapTool
    \/ InvokeWrapped
    \/ InitializeOpenAI

ApprovalSpec ==
    ApprovalSpecInit /\ [][ApprovalNext]_vars

\* the scheduling the runtime guarantees: the clock advances, a due timer
\* fires, and a settled promise's continuation runs
FairSpec ==
    /\ Spec
    /\ WF_vars(Tick)
    /\ \A v \in 1..MaxCalls : WF_vars(Expire(v))
    /\ \A i \in Calls : WF_vars(OnValidationError(i))
    /\ \A i \in Calls : WF_vars(OnApproved(i))

(***************************************************************************)
(* Properties of the approval gate.                                        *)
(***************************************************************************)
\* the invocations of the wrapped tool's original _call made for invocation i
OriginalCalls(i) ==
    SelectSeq(trace[i], LAMBDA e : e.kind = "originalCall")

\* the kinds of what invocation i did, in order
Kinds(i) ==
    [k \in 1..Len(trace[i]) |-> trace[i][k].kind]

IsPrefix(p, q) ==
    /\ Len(p) <= Len(q)
    /\ SubSeq(q, 1, Len(p)) = p

\* invocation i has created its flow
HasFlow(i) ==
    /\ pc[i] \in {"waiting", "executing", "done", "failed"}
    /\ vid[i] \in DOMAIN flows

\* the flow of invocation i ended by rejection, expiry or cancellation
NotApproved(i) ==
    /\ HasFlow(i)
    /\ flows[vid[i]].state \in {"REJECTED", "EXPIRED", "CANCELLED"}

\* C1: when the validation flow of an invocation ended by rejection, expiry or
\* cancellation, the wrapped tool's original _call has not been invoked for
\* that invocation, and the invocation is not executing it.
C1_NoCallWithoutApproval ==
    \A i \in Calls :
        NotApproved(i) =>
            /\ OriginalCalls(i) = <<>>
            /\ pc[i] \in {"waiting", "failed"}

\* two invocations ended unapproved, one rejected and one expired or cancelled
C1_Witness ==
    \E i, j \in Calls :
        /\ pc[i] = "failed" /\ NotApproved(i) /\ flows[vid[i]].state = "REJECTED"
        /\ pc[j] = "failed" /\ NotApproved(j) /\ flows[vid[j]].state \in {"EXPIRED", "CANCELLED"}

\* C2: an approved gated invocation emits the pending event, suspends on the
\* flow, is approved, emits the follow-up event and then invokes the original
\* _call exactly once with the arguments and config it received; what the
\* original returns is what the gated call returns; the original is never
\* invoked before the flow is approved.
C2_Order ==
    \A i \in Calls :
        /\ \/ IsPrefix(Kinds(i), <<"pending_event", "createFlow", "success_event",
                                   "originalCall", "originalReturn">>)
           \/ IsPrefix(Kinds(i), <<"pending_event", "createFlow", "success_event",
                                   "originalCall", "originalThrow">>)
           \/ Kinds(i) = <<"initiateThrow">>
        /\ Len(OriginalCalls(i)) <= 1
        /\ OriginalCalls(i) # <<>> =>
              /\ HasFlow(i)
              /\ flows[vid[i]].state = "APPROVED"
              /\ OriginalCalls(i)[1].args = call[i].args
              /\ OriginalCalls(i)[1].config = call[i].config
        /\ pc[i] = "done" =>
              /\ outcome[i].kind = "returned"
              /\ trace[i][Len(trace[i])].kind = "originalReturn"
              /\ outcome[i].value = trace[i][Len(trace[i])].value

\* a flow is approved only while its invocation is suspended on it, after the
\* pending event
C2_ApprovedWhileSuspended ==
    \A i \in Calls :
        ( /\ vid[i] \in DOMAIN flows'
          /\ flows'[vid[i]].state = "APPROVED"
          /\ (vid[i] \notin DOMAIN flows \/ flows[vid[i]].state # "APPROVED") )
        => /\ pc[i] = "waiting"
           /\ Kinds(i) = <<"pending_event", "createFlow">>

C2_ApprovedCall ==
    /\ [] C2_Order
    /\ [][C2_ApprovedWhileSuspended]_vars

\* an approved invocation has returned the original's result
C2_Witness ==
    \E i \in Calls :
        /\ pc[i] = "done"
        /\ call[i].args.type = "string"
        /\ Kinds(i) = <<"pending_event", "createFlow", "success_event",
                        "originalCall", "originalReturn">>

\* C3: a flow leaves PENDING once: a flow in APPROVED, REJECTED, EXPIRED or
\* CANCELLED is changed by no later decision, timeout or abort, and whether
\* the wrapped tool is invoked does not change either: an unapproved
\* invocation stays without a call of the original, a finished one stays as
\* it is.
C3_TerminalIsFinal ==
    /\ \A v \in DOMAIN flows :
           flows[v].state \in Terminal =>
               /\ v \in DOMAIN flows'
               /\ flows'[v] = flows[v]
    /\ \A i \in Calls :
           NotApproved(i) => SelectSeq(trace'[i], LAMBDA e : e.kind = "originalCall") = <<>>
    /\ \A i \in Calls :
           pc[i] \in {"done", "failed"} =>
               /\ pc'[i] = pc[i]
               /\ trace'[i] = trace[i]
               /\ outcome'[i] = outcome[i]

C3_LeavesPendingOnce ==
    [][C3_TerminalIsFinal]_vars

\* a rejected flow whose deadline has passed and whose request was aborted:
\* the later timeout and abort found it settled
C3_Witness ==
    \E i \in Calls :
        /\ NotApproved(i)
        /\ flows[vid[i]].state = "REJECTED"
        /\ flows[vid[i]].signal \in aborted
        /\ now >= flows[vid[i]].expiresAt
        /\ pc[i] = "failed"

\* C4: a flow that gets neither a decision nor a cancellation before
\* expiresAt becomes EXPIRED: after the deadline a pending flow can only
\* expire; no invocation stays suspended (every suspended invocation has,
\* at some later time, left its wait, and it leaves it only when its flow has
\* left PENDING); the tool of an expired flow is never invoked.
C4_OnlyExpiryAfterDeadline ==
    \A v \in DOMAIN flows :
        (flows[v].state = "PENDING" /\ now >= flows[v].expiresAt)
        => flows'[v].state \in {"PENDING", "EXPIRED"}

C4_ExpiredNeverInvoked ==
    \A i \in Calls :
        /\ (HasFlow(i) /\ flows[vid[i]].state = "EXPIRED") => OriginalCalls(i) = <<>>
        /\ (HasFlow(i) /\ pc[i] # "waiting") => flows[vid[i]].state \in Terminal

C4_Expires ==
    /\ []<>(\A i \in Calls : pc[i] # "waiting")
    /\ [][C4_OnlyExpiryAfterDeadline]_vars
    /\ []C4_ExpiredNeverInvoked

\* an invocation whose flow expired has failed
C4_Witness ==
    \E i \in Calls :
        /\ HasFlow(i)
        /\ flows[vid[i]].state = "EXPIRED"
        /\ pc[i] = "failed"
        /\ outcome[i].kind = "threw"

\* C5: when the request's cancellation signal fires while a gated call is
\* pending (before expiry and before any decision), its flow becomes
\* CANCELLED in that step, no flow of an aborted request is left pending
\* before its expiry, the gated call ends with a failure, and the wrapped
\* tool is never invoked.
C5_AbortCancels ==
    \A i \in Calls, r \in Requests :
        ( /\ r \notin aborted
          /\ r \in aborted'
          /\ pc[i] = "waiting"
          /\ call[i].config.signal = r
          /\ IsPending(flows, vid[i])
          /\ now < flows[vid[i]].expiresAt )
        => flows'[vid[i]].state = "CANCELLED"

C5_NoPendingFlowOfAbortedRequest ==
    \A i \in Calls :
        (HasFlow(i) /\ call[i].config.signal \in aborted)
        => \/ flows[vid[i]].state # "PENDING"
           \/ now >= flows[vid[i]].expiresAt

C5_CancelledNeverInvoked ==
    \A i \in Calls :
        (HasFlow(i) /\ flows[vid[i]].state = "CANCELLED") =>
            /\ OriginalCalls(i) = <<>>
            /\ pc[i] \in {"waiting", "failed"}
            /\ pc[i] = "failed" => outcome[i].kind = "threw"

\* a cancelled flow stays cancelled, so "again and again every cancelled call
\* has failed" says that each cancelled call fails
C5_Cancellation ==
    /\ [][C5_AbortCancels]_vars
    /\ [] C5_NoPendingFlowOfAbortedRequest
    /\ [] C5_CancelledNeverInvoked
    /\ []<>(\A i \in Calls :
               (HasFlow(i) /\ flows[vid[i]].state = "CANCELLED") => pc[i] = "failed")

\* a call cancelled while pending, before its expiry, has failed
C5_Witness ==
    \E i \in Calls :
        /\ HasFlow(i)
        /\ flows[vid[i]].state = "CANCELLED"
        /\ now < flows[vid[i]].expiresAt
        /\ Kinds(i) = <<"pending_event", "createFlow">>
        /\ pc[i] = "failed"

\* C7 as claimed: the failure of an unapproved call names the tool, and the
\* message for a rejected flow differs from the message for an expired flow.
C7_MessageDistinguishes ==
    \A i, j \in Calls :
        ( /\ pc[i] = "failed" /\ NotApproved(i) /\ flows[vid[i]].state = "REJECTED"
          /\ pc[j] = "failed" /\ NotApproved(j) /\ flows[vid[j]].state = "EXPIRED" )
        => /\ Includes(outcome[i].message, call[i].tool)
           /\ Includes(outcome[j].message, call[j].tool)
           /\ outcome[i].message # outcome[j].message

\* C7 as amended: the failure of an unapproved call names the tool and is the
\* same message, "Tool call for <tool> was not approved by the user.", after a
\* rejection, an expiry and a cancellation.
C7_UniformMessage ==
    \A i \in Calls :
        (pc[i] = "failed" /\ NotApproved(i)) =>
            /\ outcome[i].kind = "threw"
            /\ outcome[i].message = S_outer_prefix \o call[i].tool \o S_outer_suffix
            /\ Includes(outcome[i].message, call[i].tool)

\* the same tool failed once after a rejection and once after an expiry
C7_Witness ==
    \E i, j \in Calls :
        /\ call[i].tool = call[j].tool
        /\ pc[i] = "failed" /\ NotApproved(i) /\ flows[vid[i]].state = "REJECTED"
        /\ pc[j] = "failed" /\ NotApproved(j) /\ flows[vid[j]].state = "EXPIRED"

\* C8 as claimed: a failed gated call reports "not approved" if and only if its
\* flow ended by rejection, expiry or cancellation; an error of the wrapped
\* tool or of flow initiation is thrown on as it is.
C8_NotApprovedIffFlowEnded ==
    \A i \in Calls :
        pc[i] = "failed" =>
            LET last == trace[i][Len(trace[i])]
            IN  /\ (outcome[i].message = NotApprovedMessage(call[i].tool)) <=> NotApproved(i)
                /\ last.kind \in {"originalThrow", "initiateThrow"} =>
                       outcome[i].message = last.message

\* C9: every gated invocation has a validation id of its own and waits on a
\* flow of its own, created from its own call; a suspended invocation's
\* approval takes effect, and an approved or executing invocation can go on,
\* whatever the other invocations are doing.
C9_IndependentFlows ==
    /\ \A i, j \in Calls :
           (i # j /\ vid[i] # 0 /\ vid[j] # 0) => vid[i] # vid[j]
    /\ \A i \in Calls :
           pc[i] \in {"waiting", "executing", "done"} =>
               /\ vid[i] \in DOMAIN flows
               /\ flows[vid[i]].validationId = vid[i]
               /\ flows[vid[i]].toolName = call[i].tool
               /\ flows[vid[i]].arguments = FlowArguments(call[i].args)
    /\ \A i \in Calls :
           (pc[i] = "waiting" /\ IsPending(flows, vid[i]) /\ now < flows[vid[i]].expiresAt) =>
               /\ ENABLED Resolve(vid[i], "APPROVED")
               /\ ResolveFlow(flows, vid[i], "APPROVED")[vid[i]].state = "APPROVED"
    /\ \A i \in Calls :
           (pc[i] = "waiting" /\ HasFlow(i) /\ flows[vid[i]].state = "APPROVED") =>
               ENABLED OnApproved(i)
    /\ \A i \in Calls :
           pc[i] = "executing" => \A r \in ToolResults : ENABLED OriginalReturns(i, r)

\* one call of a tool has completed while another call of the same tool is
\* still suspended on its pending flow
C9_Witness ==
    \E i, j \in Calls :
        /\ i # j
        /\ call[i].tool = call[j].tool
        /\ pc[i] = "waiting" /\ IsPending(flows, vid[i])
        /\ pc[j] = "done"

\* the flows a step changes
ChangedFlows ==
    { v \in DOMAIN flows : v \notin DOMAIN flows' \/ flows'[v] # flows[v] }

\* the invocations that wait on flow v
Owners(v) ==
    { i \in Calls : vid[i] = v }

\* C10: a step changes pending flows only, and only their state; a decision or
\* an expiry changes one flow; an abort changes only flows of invocations
\* that carry the aborted request's signal; a step of an invocation (sending
\* its request, creating its flow, resuming) changes no existing flow.
C10_Frame ==
    /\ \A v \in ChangedFlows :
           /\ flows[v].state = "PENDING"
           /\ v \in DOMAIN flows'
           /\ flows'[v] = [flows[v] EXCEPT !.state = flows'[v].state]
    /\ aborted' = aborted => Cardinality(ChangedFlows) <= 1
    /\ aborted' # aborted =>
           \A v \in ChangedFlows :
               /\ flows'[v].state = "CANCELLED"
               /\ \A i \in Owners(v) : call[i].config.signal \in aborted' \ aborted
    /\ (\E i \in Calls : pc'[i] # pc[i]) => ChangedFlows = {}

C10_OnlyThatFlow ==
    [][C10_Frame]_vars

\* two flows for the same user and the same tool, one decided while the other
\* is still pending
C10_Witness ==
    \E v, w \in DOMAIN flows :
        /\ v # w
        /\ flows[v].userId = flows[w].userId
        /\ flows[v].toolName = flows[w].toolName
        /\ flows[v].state = "REJECTED"
        /\ flows[w].state = "PENDING"

(***************************************************************************)
(* Properties of loadAgentTools.                                           *)
(***************************************************************************)
\* C6 as claimed: with a response channel, every tool loadAgentTools returns
\* whose name requires approval under the toolApproval configuration has its
\* _call replaced by the approval gate, whichever namespace it comes from.
C6_EveryRequiringToolIsGated ==
    (loadPc = "returned" /\ result.kind = "tools") =>
        \A k \in 1..Len(result.tools) :
            (req.res /\ requiresApproval(result.tools[k].name, req.toolApproval))
            => result.tools[k].call = "gated"

\* the same for the tools that come from the registry (builtin and MCP)
C6_RegistryToolsGated ==
    (loadPc = "returned" /\ result.kind = "tools") =>
        \A k \in 1..Len(result.tools) :
            ( /\ result.tools[k].source # "action"
              /\ req.res
              /\ requiresApproval(result.tools[k].name, req.toolApproval) )
            => result.tools[k].call = "gated"

\* ---------------------------------------------------------------------
\* processRequiredActions: the batch and its outputs

\* what the call of requiredActions[i] settled with, by the log
settledWith(i, output) ==
    \E k \in 1..Len(praLog) :
        /\ praLog[k].id = i
        /\ \/ praLog[k].op = "resolved" /\ praLog[k].value = output
           \/ /\ praLog[k].op = "rejected"
              /\ handleToolError(requiredActions[i], praLog[k].value).output = output

outputsOf(i) ==
    { p \in 1..Len(tool_outputs.outputs) :
        tool_outputs.outputs[p].tool_call_id = requiredActions[i].toolCallId }

\* C11: when processRequiredActions returns, every input call has exactly one
\* output with its toolCallId, that output holds what that call settled with,
\* and there are no other outputs
C11_OutputsMatchCalls ==
    praPc = "returned" =>
        /\ Len(tool_outputs.outputs) = Len(requiredActions)
        /\ \A i \in 1..Len(requiredActions) :
              /\ Cardinality(outputsOf(i)) = 1
              /\ \A p \in outputsOf(i) : settledWith(i, tool_outputs.outputs[p].output)

\* the calls whose tool was found each have their one output, in whatever
\* order they completed
C11_ResolvedCallsMatch ==
    praPc = "returned" =>
        \A p \in 1..Len(promises) :
            /\ tool_outputs.outputs[p].tool_call_id = requiredActions[promises[p].call].toolCallId
            /\ settledWith(promises[p].call, tool_outputs.outputs[p].output)
            /\ \A q \in 1..Len(promises) : promises[q].call = promises[p].call => q = p

\* the calls of the batch whose invocation failed, with the error's message
failedCalls ==
    { k \in 1..Len(praLog) : praLog[k].op = "rejected" }

\* the diagnostic for a failed call: it names the tool, and of the message it
\* keeps the first REDACT_LENGTH characters at most
isDiagnostic(output, toolName, message) ==
    LET head == S_Error_processing_tool \o toolName \o S_colon_space
        kept == IF Len(message) <= REDACT_LENGTH THEN Len(message) ELSE REDACT_LENGTH
    IN  /\ output = head \o SubSeq(message, 1, kept)
        /\ Len(output) <= Len(head) + REDACT_LENGTH

\* C12: a tool whose _call rejects or throws does not fail the batch: its
\* promise is fulfilled with the diagnostic as the call's own output, and
\* when the batch returns every call that was made has its own output
C12_FailureIsAnOutput ==
    /\ \A k \in failedCalls : \E p \in 1..Len(promises) :
          /\ promises[p].call = praLog[k].id
          /\ promises[p].state = "fulfilled"
          /\ promises[p].value.tool_call_id = requiredActions[praLog[k].id].toolCallId
          /\ isDiagnostic(promises[p].value.output, requiredActions[praLog[k].id].tool,
                          praLog[k].value)
    /\ praPc = "threw" =>
          tool_outputs.kind \in {"throw Invalid spec", "throw decryptMetadata", "invalid_action"}
    /\ praPc = "returned" =>
          \A p \in 1..Len(promises) :
              /\ tool_outputs.outputs[p] = promises[p].value
              /\ tool_outputs.outputs[p].tool_call_id = requiredActions[promises[p].call].toolCallId
              /\ settledWith(promises[p].call, tool_outputs.outputs[p].output)

\* a batch returned in which one call failed with a message longer than the
\* bound and its sibling resolved
C12_Witness ==
    /\ praPc = "returned"
    /\ \E k \in failedCalls : Len(praLog[k].value) > REDACT_LENGTH
    /\ \E k \in 1..Len(praLog) :
          praLog[k].op = "resolved" /\ \A j \in failedCalls : praLog[j].id # praLog[k].id

\* a batch returned in which a tool threw synchronously
C12_WitnessSync ==
    /\ praPc = "returned"
    /\ \E i \in 1..Len(requiredActions) : requiredActions[i].tool \in client.throwsSync
    /\ Len(promises) = MaxBatch

\* ---------------------------------------------------------------------
\* the stored action sets and what is compiled from them

\* whichever of the two functions runs: its action sets, its allowed domains,
\* the domain map it matches tool names against and the sets it compiled
storedActionSets ==
    IF loadPc # "idle" THEN req.actionSets ELSE client.actionSets
allowedOf ==
    IF loadPc # "idle" THEN req.allowedDomains ELSE client.allowedDomains
compiledDomainMap ==
    IF loadPc # "idle" THEN domainMap
    ELSE IF praPc = "compiling" THEN compiling.domainMap ELSE actionSets.domainMap
compiledSets ==
    IF loadPc # "idle" THEN processedActionSets
    ELSE IF praPc = "compiling" THEN compiling.processedDomains ELSE actionSets.processedDomains

\* an allowed set with a spec that parses, by the domain of its server URL
domainMismatch(action) ==
    /\ isActionDomainAllowed(action.metadata.domain, allowedOf)
    /\ action.metadata.raw_spec.valid
    /\ action.metadata.raw_spec.serverDomain # action.metadata.domain
passesValidation(action) ==
    /\ isActionDomainAllowed(action.metadata.domain, allowedOf)
    /\ action.metadata.raw_spec.valid
    /\ action.metadata.raw_spec.serverDomain = action.metadata.domain

\* the tool identifier of an operation of an action set
toolNameOf(functionName, action) ==
    functionName \o actionDelimiter \o domainParser(action.metadata.domain)

\* the compilation is over and the tool names are matched
compiledAll ==
    \/ loadPc = "mapping"
    \/ praPc \in {"createActionTool", "joining", "returned"} /\ actionSets.kind = "maps"

\* C13: once the action sets are compiled, the domain map that tool names are
\* matched against has no entry for a set whose server URL domain differs from
\* its stored domain, and every tool identifier of an operation of a set that
\* passed validation is matched to that set's request builder
C13_MismatchExcludedOthersKept ==
    compiledAll =>
        \A k \in 1..Len(storedActionSets) :
            LET action == storedActionSets[k]
            IN  /\ domainMismatch(action) =>
                      \A e \in 1..Len(compiledDomainMap) : compiledDomainMap[e].value # action
                /\ passesValidation(action) /\ action.metadata.decrypts =>
                      \A f \in action.metadata.raw_spec.operations :
                          LET current == currentDomain(compiledDomainMap, toolNameOf(f, action))
                          IN  /\ MapHas(compiledSets, current)
                              /\ MapGet(compiledSets, current).action = action

\* the part that holds: a set whose domains differ is never compiled
C13_MismatchNeverCompiled ==
    \A k \in 1..Len(storedActionSets) :
        domainMismatch(storedActionSets[k]) =>
            \A e \in 1..Len(compiledSets) : compiledSets[e].value.action # storedActionSets[k]

\* the collaborator calls of whichever function runs
compileLog ==
    IF loadPc # "idle" THEN loadLog ELSE praLog

actionById(id) ==
    CHOOSE action \in { storedActionSets[k] : k \in 1..Len(storedActionSets) } :
        action.action_id = id

\* entry k of the log follows a call of op for the same action set, within
\* the same pass over that set
calledBefore(op, k) ==
    \E a \in 1..(k - 1) :
        /\ compileLog[a].op = op
        /\ compileLog[a].id = compileLog[k].id
        /\ \A b \in (a + 1)..(k - 1) :
              ~(compileLog[b].op = "domainParser" /\ compileLog[b].id = compileLog[k].id)

\* C14: openapiToFunction and decryptMetadata are called for an action set
\* only after isActionDomainAllowed and validateActionDomain were called for it
\* and passed; a set that fails either is never among the compiled sets and
\* no tool is created from it
C14_ChecksBeforeCompile ==
    /\ \A k \in 1..Len(compileLog) :
          compileLog[k].op \in {"openapiToFunction", "decryptMetadata", "createActionTool"} =>
              /\ passesValidation(actionById(compileLog[k].id))
              /\ calledBefore("isActionDomainAllowed", k)
              /\ calledBefore("validateActionDomain", k)
    /\ \A e \in 1..Len(compiledSets) : passesValidation(compiledSets[e].value.action)

\* the sets are compiled, one was decrypted and built, another failed a check
C14_Witness ==
    /\ compiledAll
    /\ \E k \in 1..Len(compileLog) : compileLog[k].op = "decryptMetadata"
    /\ \E k \in 1..Len(compileLog) : compileLog[k].op = "openapiToFunction"
    /\ \E k \in 1..Len(storedActionSets) : ~passesValidation(storedActionSets[k])

\* a set without a spec that parses, or without a server URL
invalidSpec(action) ==
    \/ ~validateAndParseOpenAPISpec(action.metadata.raw_spec).spec
    \/ validateAndParseOpenAPISpec(action.metadata.raw_spec).serverUrl = <<>>

isCompiled(action) ==
    \E e \in 1..Len(compiledSets) : compiledSets[e].value.action = action

\* the run was ended by an error
runRejected ==
    loadPc = "threw" \/ praPc = "threw"

\* C15: an action set whose spec is invalid is left out and the sets after it
\* are still compiled; the run is not ended by it, in processRequiredActions
\* and in loadAgentTools alike
C15_InvalidSpecIsSkipped ==
    /\ runRejected =>
          \A k \in 1..Len(storedActionSets) :
              isActionDomainAllowed(storedActionSets[k].metadata.domain, allowedOf)
                  => ~invalidSpec(storedActionSets[k])
    /\ compiledAll =>
          \A k \in 1..Len(storedActionSets) :
              /\ invalidSpec(storedActionSets[k]) => ~isCompiled(storedActionSets[k])
              /\ passesValidation(storedActionSets[k]) => isCompiled(storedActionSets[k])

\* the part that holds: loadAgentTools leaves the invalid set out and goes on
C15_LoadAgentToolsSkips ==
    /\ loadPc = "threw" =>
          \A k \in 1..Len(req.actionSets) : ~invalidSpec(req.actionSets[k])
    /\ loadPc = "mapping" =>
          \A k \in 1..Len(req.actionSets) :
              LET action == req.actionSets[k]
              IN  /\ invalidSpec(action) =>
                        \A e \in 1..Len(processedActionSets) :
                            processedActionSets[e].value.action # action
                  /\ passesValidation(action) =>
                        \E e \in 1..Len(processedActionSets) :
                            processedActionSets[e].value.action = action

\* how often op was called, for the action set id where it has one
timesCalled(op, id) ==
    Cardinality({ k \in 1..Len(praLog) : praLog[k].op = op /\ praLog[k].id = id })
timesLoaded ==
    Cardinality({ k \in 1..Len(praLog) : praLog[k].op = "loadActionSets" })

\* C16: in one run of processRequiredActions loadActionSets is called at most
\* once, and decryptMetadata, validateAndParseOpenAPISpec and openapiToFunction
\* at most once for each action set
C16_CompiledOnce ==
    /\ timesLoaded <= 1
    /\ \A k \in 1..Len(client.actionSets) :
          \A op \in {"decryptMetadata", "validateAndParseOpenAPISpec", "openapiToFunction"} :
              timesCalled(op, client.actionSets[k].action_id) <= 1

\* the calls of decryptMetadata that failed
failedDecrypts ==
    { k \in 1..Len(compileLog) :
        /\ compileLog[k].op = "decryptMetadata"
        /\ ~actionById(compileLog[k].id).metadata.decrypts }

\* C17: when decryptMetadata fails for an action set the run is rejected with
\* that error, nothing of the compilation follows it, and the set is neither
\* among the compiled sets nor is a tool created from it
C17_DecryptFailureIsFatal ==
    /\ \A k \in failedDecrypts :
          /\ runRejected
          /\ loadPc = "threw" => result = Rejected("decryptMetadata failed")
          /\ praPc = "threw" => tool_outputs = RejectedWith("throw decryptMetadata")
          /\ \A j \in (k + 1)..Len(compileLog) : compileLog[j].op \in {"resolved", "rejected"}
    /\ \A e \in 1..Len(compiledSets) : compiledSets[e].value.action.metadata.decrypts
    /\ \A k \in 1..Len(compileLog) :
          compileLog[k].op = "createActionTool" => actionById(compileLog[k].id).metadata.decrypts

\* a run rejected by a failed decryptMetadata
C17_Witness ==
    /\ runRejected
    /\ failedDecrypts # {}

\* the names of the tools loadAgentTools returned
returnedNames ==
    { result.tools[k].name : k \in 1..Len(result.tools) }

\* C18: a requested tool identifier that is neither a registry tool nor an
\* operation of a compiled action set does not vanish: processRequiredActions
\* returns an output for that call or is rejected, and loadAgentTools is
\* rejected or returns nothing at all (with its warning) rather than a tool
\* list without it
C18_UnresolvedIsReported ==
    /\ praPc = "returned" =>
          \A i \in 1..Len(requiredActions) : outputsOf(i) # {}
    /\ loadPc = "returned" /\ domainMap # <<>> /\ result.kind = "tools" =>
          \A k \in 1..Len(filteredTools) : filteredTools[k] \in returnedNames

\* the steps of validating and compiling an action set
compileOps ==
    {"domainParser", "isActionDomainAllowed", "validateAndParseOpenAPISpec",
     "validateActionDomain", "openapiToFunction", "decryptMetadata"}

\* C19: once the request is cancelled, no step validates, parses or decrypts
\* an action set any more
C19_NoCompileAfterAbort ==
    [][aborted # {} =>
          \A k \in (Len(compileLog) + 1)..Len(compileLog') : compileLog'[k].op \notin compileOps]_vars

\* ---------------------------------------------------------------------
\* mapTokenResponse: the token record

\* what the response holds where mapping.access_token points: the top-level
\* field, or the field of the nested authed_user object
atAccessTokenPath ==
    IF tokenCall.mapping[K_access_token] = K_access_token
    THEN property(tokenCall.response, K_access_token)
    ELSE IF property(tokenCall.response, K_authed_user).t = "object"
    THEN property(property(tokenCall.response, K_authed_user), K_access_token)
    ELSE JsUndefined

\* undefined, null, the empty string or 0
emptyValue(v) ==
    v \in {JsUndefined, JsNull, JsString(<<>>), JsNumber(0)}

\* C20: mapTokenResponse either has a record whose access_token is the
\* non-empty value at mapping.access_token, or it throws, and it throws exactly
\* when there is no such value, whatever the top-level access_token is
C20_AccessTokenOrThrow ==
    /\ tokenPc \in {"created", "returned"} =>
          /\ tokens.kind = "tokens"
          /\ tokens.access_token = atAccessTokenPath
          /\ ~emptyValue(tokens.access_token)
    /\ tokenPc = "threw" =>
          /\ tokens.kind = "error"
          /\ emptyValue(atAccessTokenPath)

\* a record returned with the nested access token of a response that has
\* another access_token at top level
C20_Witness ==
    /\ tokenPc = "returned"
    /\ tokenCall.mapping[K_access_token] = P_authed_user_access_token
    /\ tokens.access_token = JsString(V_tokN)
    /\ property(tokenCall.response, K_access_token) = JsString(V_tokA)

\* a call that threw although the response has a top-level access_token
C20_WitnessThrow ==
    /\ tokenPc = "threw"
    /\ property(tokenCall.response, K_access_token) = JsString(V_tokA)

\* the field of the nested authed_user object, where there is such an object
nestedField(field) ==
    IF property(tokenCall.response, K_authed_user).t = "object"
    THEN property(property(tokenCall.response, K_authed_user), field)
    ELSE JsUndefined

\* what the response holds for an optional field where the resolution order
\* looks: at the path of the mapping if it has one, else at top level
selectedField(field) ==
    IF tokenCall.mapping[field] # <<>>
    THEN nestedField(field)
    ELSE property(tokenCall.response, field)

\* a record exists
hasRecord ==
    tokenPc \in {"created", "returned"}

\* C21 as stated: the token_type is "Bearer" exactly when there is a type
\* neither at the mapped path nor at top level, and is one of the types
\* present otherwise
C21_BearerIffNoTypeAnywhere ==
    hasRecord =>
        LET mapped == IF tokenCall.mapping[K_token_type] # <<>>
                      THEN nestedField(K_token_type) ELSE JsUndefined
            top == property(tokenCall.response, K_token_type)
        IN  /\ tokens.token_type = JsString(S_Bearer) <=> ~truthy(mapped) /\ ~truthy(top)
            /\ truthy(mapped) \/ truthy(top) =>
                  tokens.token_type \in { v \in {mapped, top} : truthy(v) }

\* C21: the token_type is "Bearer" exactly when the one location the
\* resolution order looks at holds no type, and is the value there otherwise
C21_BearerIffNoTypeSelected ==
    hasRecord =>
        /\ tokens.token_type = JsString(S_Bearer) <=> ~truthy(selectedField(K_token_type))
        /\ truthy(selectedField(K_token_type)) =>
              tokens.token_type = selectedField(K_token_type)

\* a record with the default type although the response has a top-level
\* token_type: the mapping names a path that holds none
C21_Witness ==
    /\ tokenPc = "returned"
    /\ tokenCall.mapping[K_token_type] = P_authed_user_token_type
    /\ ~truthy(nestedField(K_token_type))
    /\ truthy(property(tokenCall.response, K_token_type))
    /\ tokens.token_type = JsString(S_Bearer)

\* C22: a returned record with expires_in has
\* expires_at = obtained_at + expires_in * 1000, however the clock moved
\* during the call
C22_ExpiresAtFromObtainedAt ==
    tokenPc = "returned" /\ truthy(tokens.expires_in) =>
        tokens.expires_at = JsNumber(tokens.obtained_at.n + tokens.expires_in.n * 1000)

\* the part that holds: expires_at is expires_in * 1000 after a time of the
\* call that is not before obtained_at
C22_ExpiresAtNotBeforeObtainedAt ==
    tokenPc = "returned" /\ truthy(tokens.expires_in) =>
        /\ tokens.expires_at = JsNumber(clock + tokens.expires_in.n * 1000)
        /\ tokens.obtained_at.n <= clock

\* the names a top-level field of a response may have
TopLevelKeys ==
    {K_access_token, K_token_type, K_expires_in, K_scope, K_refresh_token, K_authed_user}

\* the error message from the given position on
messageFrom(k) ==
    SubSeq(tokens.message, k, Len(tokens.message))

\* C23: when there is no access token at the mapped path the call throws and
\* there is no record; the message gives the path, in quotes, and after
\* "Response keys: " the top-level keys of the response and no others
C23_ErrorNamesPathAndKeys ==
    /\ emptyValue(atAccessTokenPath) /\ tokenPc # "start" =>
          /\ tokenPc = "threw"
          /\ tokens.kind = "error"
    /\ tokenPc = "threw" =>
          LET path == tokenCall.mapping[K_access_token]
              named == S_mapping_failed \o path \o S_response_keys
          IN  /\ Len(tokens.message) >= Len(named)
              /\ SubSeq(tokens.message, 1, Len(named)) = named
              /\ \A key \in TopLevelKeys :
                    Includes(messageFrom(Len(named) + 1), key)
                        <=> property(tokenCall.response, key) # JsUndefined

\* a call that threw for a nested path, on a response with several keys
C23_Witness ==
    /\ tokenPc = "threw"
    /\ tokenCall.mapping[K_access_token] = P_authed_user_access_token
    /\ Len(tokenCall.response.o) >= 2

\* what the record must hold for an optional field: the value where the
\* resolution order looks, or nothing
resolved(field) ==
    IF truthy(selectedField(field)) THEN selectedField(field) ELSE JsUndefined

\* C24: in a returned record each optional field is what the response holds at
\* the mapped path when the mapping has a path for it, and else what it holds
\* at top level under the field's name; a field that resolves to nothing is
\* absent, except that token_type is then "Bearer"
C24_MappedPathElseTopLevel ==
    tokenPc = "returned" =>
        /\ tokens.scope = resolved(K_scope)
        /\ tokens.expires_in = resolved(K_expires_in)
        /\ tokens.refresh_token = resolved(K_refresh_token)
        /\ tokens.token_type = IF truthy(selectedField(K_token_type))
                               THEN selectedField(K_token_type) ELSE JsString(S_Bearer)

\* a returned record with a scope from the mapped path that differs from the
\* top-level scope, a refresh_token from top level, and no expires_in because
\* its mapped path holds none while the top level has one
C24_Witness ==
    /\ tokenPc = "returned"
    /\ tokenCall.mapping[K_scope] = P_authed_user_scope
    /\ tokens.scope = JsString(V_chat)
    /\ property(tokenCall.response, K_scope) = JsString(V_read)
    /\ tokenCall.mapping[K_refresh_token] = <<>>
    /\ tokens.refresh_token = JsString(V_ref)
    /\ tokenCall.mapping[K_expires_in] = P_authed_user_expires_in
    /\ tokens.expires_in = JsUndefined
    /\ property(tokenCall.response, K_expires_in) = JsNumber(2)

\* C25: a returned record has expires_at exactly when expires_in resolves to a
\* truthy value, and then has expires_in too; when expires_in is absent or 0
\* the record has neither
C25_ExpiresAtIffExpiresIn ==
    tokenPc = "returned" =>
        /\ tokens.expires_at # JsUndefined <=> truthy(selectedField(K_expires_in))
        /\ tokens.expires_in # JsUndefined <=> truthy(selectedField(K_expires_in))
        /\ truthy(selectedField(K_expires_in)) =>
              /\ tokens.expires_in = selectedField(K_expires_in)
              /\ tokens.expires_at.t = "number"

\* a returned record without expires_in and expires_at for a response whose
\* expires_in is 0
C25_Witness ==
    /\ tokenPc = "returned"
    /\ selectedField(K_expires_in) = JsNumber(0)
    /\ tokens.expires_at = JsUndefined

\* ---------------------------------------------------------------------
\* getNestedValue

\* one step along a path: the property of an object, nothing of anything else
lookup(v, key) ==
    IF v.t = "object" THEN property(v, key) ELSE JsUndefined

\* the value reached from obj by the keys, one after the other
reached(obj, keys) ==
    LET at[k \in 0..Len(keys)] ==
            IF k = 0 THEN obj ELSE lookup(at[k - 1], keys[k])
    IN  at[Len(keys)]

\* C26: getNestedValue(obj, path) returns the value reached by following the
\* keys that path is written from, and undefined when a key is missing or a
\* value on the way is null or not an object
C26_FollowsThePath ==
    nestedCall.state = "returned" =>
        /\ nestedCall.value = reached(nestedCall.obj, nestedCall.keys)
        /\ (\E k \in 1..Len(nestedCall.keys) :
                reached(nestedCall.obj, SubSeq(nestedCall.keys, 1, k - 1)).t # "object")
              => nestedCall.value = JsUndefined

\* a value reached three keys deep
C26_Witness ==
    /\ nestedCall.state = "returned"
    /\ Len(nestedCall.keys) = 3
    /\ nestedCall.value = JsString(V_v)

\* ---------------------------------------------------------------------
\* requiresApproval and matchesPattern

\* some pattern of the list matches the name
anyMatches(toolName, patterns) ==
    \E k \in 1..Len(patterns) : matchesPattern(toolName, patterns[k])

returnedFrom(op) ==
    approvalCall.state = "returned" /\ approvalCall.op = op

\* C27: requiresApproval is false without a configuration and when required
\* is undefined or false; otherwise false whenever an excluded pattern
\* matches, true when required is true, and for an array of required patterns
\* true exactly when one of them matches
C27_RequiresApproval ==
    returnedFrom("requiresApproval") =>
        LET cfg      == approvalCall.toolApproval
            name     == approvalCall.toolName
            unset    == ~cfg.defined \/ cfg.required \in {"undefined", "false"}
            excluded == anyMatches(name, cfg.excluded)
        IN  /\ unset => approvalCall.value = FALSE
            /\ (~unset /\ excluded) => approvalCall.value = FALSE
            /\ (~unset /\ ~excluded /\ cfg.required = "true") => approvalCall.value = TRUE
            /\ (~unset /\ ~excluded /\ cfg.required = "array")
                  => approvalCall.value = anyMatches(name, cfg.requiredPatterns)

\* a name that a required pattern and an excluded pattern both match
C27_Witness ==
    /\ returnedFrom("requiresApproval")
    /\ approvalCall.toolApproval.required = "array"
    /\ anyMatches(approvalCall.toolName, approvalCall.toolApproval.requiredPatterns)
    /\ anyMatches(approvalCall.toolName, approvalCall.toolApproval.excluded)
    /\ approvalCall.value = FALSE

\* a name that only a required pattern matches
C27_WitnessRequired ==
    /\ returnedFrom("requiresApproval")
    /\ approvalCall.toolApproval.required = "array"
    /\ Len(approvalCall.toolApproval.excluded) > 0
    /\ approvalCall.value = TRUE

\* the name of an MCP tool: toolName:::mcp:::serverName
isMcpToolName(toolName) ==
    Includes(toolName, MCP_DELIMITER)

\* C28: matchesPattern(toolName, "mcp:*") is true for every MCP tool name
C28_McpStarMatchesMcpTools ==
    ( /\ returnedFrom("matchesPattern")
      /\ approvalCall.pattern = S_mcp_colon_star
      /\ isMcpToolName(approvalCall.toolName) )
        => approvalCall.value = TRUE

\* what the patterns do match: the name itself, "all", and a trailing-*
\* prefix; "mcp:*" is such a prefix and matches the names that begin with
\* "mcp:"
C28_ExactAllOrPrefix ==
    returnedFrom("matchesPattern") =>
        LET name    == approvalCall.toolName
            pattern == approvalCall.pattern
        IN  approvalCall.value =
                \/ pattern = name
                \/ pattern = S_all
                \/ /\ Len(pattern) > 0
                   /\ pattern[Len(pattern)] = "*"
                   /\ Len(name) >= Len(pattern) - 1
                   /\ \A k \in 1..(Len(pattern) - 1) : name[k] = pattern[k]

\* "mcp:*" against an MCP tool and against a name that begins with "mcp:"
C28_Reached ==
    /\ returnedFrom("matchesPattern")
    /\ approvalCall.pattern = S_mcp_colon_star
    /\ approvalCall.toolName = T_mcp_colon_x
    /\ approvalCall.value = TRUE

\* ---------------------------------------------------------------------
\* image-generation tools in processRequiredActions

\* the calls of the batch whose image-generation tool resolved
imageCalls ==
    { p \in 1..Len(promises) :
        /\ promises[p].kind = "tool"
        /\ promises[p].state = "fulfilled"
        /\ requiredActions[promises[p].call].tool \in imageGenTools
        /\ \E k \in 1..Len(praLog) :
              praLog[k].op = "resolved" /\ praLog[k].id = promises[p].call }

\* the content parts of a type at a content index, by position
partsAt(type, at) ==
    { k \in 1..Len(contentData) :
        contentData[k].type = type /\ contentData[k].index = at }

\* the instruction that stands for the output of an image-generation tool
instructionOf(toolName) ==
    toolName \o S_displayed_an_image

C29_ToolCallPartFirst ==
    \A f \in 1..Len(contentData) :
        contentData[f].type = "image_file" =>
            \E t \in 1..(f - 1) :
                /\ contentData[t].type = "tool_call"
                /\ contentData[t].index = contentData[f].index
                /\ contentData[t].tool_call.function.name \in imageGenTools

eventsOf(i) ==
    SelectSeq(trace[i], LAMBDA e : e.kind \in {"pending_event", "success_event"})

\* invocation i has suspended on its flow, or is past that
hasSuspended(i) ==
    \E k \in 1..Len(trace[i]) : trace[i][k].kind = "createFlow"

\* C30: each gated invocation emits exactly one pending event before it
\* suspends, with the flow's validationId, an expires_at, and the tool call's
\* args replaced by an empty value; a second event for the same step is
\* emitted only if the flow is approved, and it carries neither validation
\* nor expires_at; no event is emitted after a rejection, expiry or
\* cancellation
C30_Events ==
    \A i \in Calls :
        /\ ~hasSuspended(i) => eventsOf(i) = <<>>
        /\ hasSuspended(i) =>
              /\ Len(eventsOf(i)) \in {1, 2}
              /\ trace[i][1] = eventsOf(i)[1]
              /\ trace[i][2].kind = "createFlow"
              /\ LET pending == eventsOf(i)[1]
                 IN  /\ pending.kind = "pending_event"
                     /\ pending.event.id = call[i].config.toolCall.stepId
                     /\ DOMAIN pending.event.delta
                            = {"type", "tool_calls", "validation", "expires_at"}
                     /\ pending.event.delta.validation = vid[i]
                     /\ pending.event.delta.validation = trace[i][2].id
                     /\ pending.event.delta.expires_at > 0
                     /\ Len(pending.event.delta.tool_calls) = 1
                     /\ pending.event.delta.tool_calls[1].args = <<>>
              /\ Len(eventsOf(i)) = 2 =>
                    LET second == eventsOf(i)[2]
                    IN  /\ second.kind = "success_event"
                        /\ flows[vid[i]].state = "APPROVED"
                        /\ second.event.id = eventsOf(i)[1].event.id
                        /\ DOMAIN second.event.delta = {"type", "tool_calls"}
        /\ NotApproved(i) => Len(eventsOf(i)) = 1

\* an invocation that ended unapproved sends nothing more
C30_SilentAfterRefusal ==
    [][ \A i \in Calls : NotApproved(i) => eventsOf(i)' = eventsOf(i) ]_vars

\* one invocation with arguments was approved and sent both events, another
\* was refused after its pending event
C30_Witness ==
    \E i, j \in Calls :
        /\ Len(eventsOf(i)) = 2
        /\ call[i].args.input # ""
        /\ pc[i] = "done"
        /\ NotApproved(j)
        /\ pc[j] = "failed"
        /\ Len(eventsOf(j)) = 1

\* ---------------------------------------------------------------------
\* the expiry of a flow and the expiry announced for it

\* the expires_at of the pending event of invocation i
announcedExpiry(i) ==
    eventsOf(i)[1].event.delta.expires_at

\* C31: a flow's expiresAt is fixed when the flow is created, never changes
\* afterwards, and the expires_at announced in the pending event equals it
C31_AnnouncedExpiryIsFlowExpiry ==
    \A i \in Calls :
        HasFlow(i) =>
            /\ flows[vid[i]].expiresAt = meta[i].expiresAt
            /\ announcedExpiry(i) = flows[vid[i]].expiresAt

\* the first half alone: the expiresAt a flow was created with is the one the
\* handler computed, and no step changes it
C31_ExpiresAtFixed ==
    [][ \A v \in DOMAIN flows :
            /\ v \in DOMAIN flows'
            /\ flows'[v].expiresAt = flows[v].expiresAt ]_vars

\* the announcement never promises less time than the flow has
C31_AnnouncedNotEarlier ==
    \A i \in Calls :
        HasFlow(i) => announcedExpiry(i) >= flows[vid[i]].expiresAt

\* ---------------------------------------------------------------------
\* the calls of a batch run side by side and are joined

\* the calls of the batch that were started, by the log
startedCalls ==
    { praLog[k].id : k \in { n \in 1..Len(praLog) : praLog[n].op = "_call" } }

\* the calls of the batch that settled, by the log
settledCalls ==
    { praLog[k].id : k \in { n \in 1..Len(praLog) : praLog[n].op \in {"resolved", "rejected"} } }

\* the calls whose tool is at hand: loaded by loadTools or built from an action
resolvedCalls ==
    { i \in 1..Len(requiredActions) :
        /\ requiredActions[i].tool # S_image_vision
        /\ isResolved(ToolMap, ActionToolMap, requiredActions[i].tool) }

\* C32: processRequiredActions returns only after every tool call it started
\* has settled; a call that fails does not cancel or skip any other started
\* or later call of the batch
C32_JoinedAndIndependent ==
    /\ praPc = "returned" =>
          /\ \A p \in 1..Len(promises) : promises[p].state = "fulfilled"
          /\ startedCalls \subseteq settledCalls
          /\ resolvedCalls \subseteq startedCalls
          /\ \A p \in 1..Len(promises) : tool_outputs.outputs[p] = promises[p].value
    /\ \A p \in 1..Len(promises) :
          promises[p].kind = "tool" => promises[p].call \in startedCalls

\* no step takes a promise away, settles it a second time or touches a
\* promise other than the one that settles in it
C32_NoStepCancels ==
    [][ /\ Len(promises') >= Len(promises)
        /\ \A q \in 1..Len(promises) :
              \/ promises'[q] = promises[q]
              \/ /\ promises[q].state # "fulfilled"
                 /\ promises'[q].call = promises[q].call
                 /\ promises'[q].state \in {"sleeping", "fulfilled"}
                 /\ \A r \in 1..Len(promises) : r # q => promises'[r] = promises[r] ]_vars

\* a call has failed, and a call started after it has returned its output
C32_Witness ==
    /\ praPc = "returned"
    /\ Len(promises) = 2
    /\ \E k \in 1..Len(praLog) : praLog[k].op = "rejected" /\ praLog[k].id = promises[1].call
    /\ \E k \in 1..Len(praLog) : praLog[k].op = "resolved" /\ praLog[k].id = promises[2].call

\* a started call settles while a later identifier is still being resolved
C32_KeepsRunning ==
    /\ praPc \in {"loadActionSets", "compiling", "createActionTool"}
    /\ \E p \in 1..Len(promises) : promises[p].state = "fulfilled" /\ promises[p].kind = "tool"
    /\ \E k \in 1..Len(praLog) : praLog[k].op = "resolved"

\* ---------------------------------------------------------------------
\* matching a tool identifier to a domain

\* the identifiers the run was asked for
requestedNames ==
    IF loadPc # "idle"
    THEN { filteredTools[k] : k \in 1..Len(filteredTools) }
    ELSE { requiredActions[k].tool : k \in 1..Len(requiredActions) }

\* lines 296-304 and 716-724: the domain an identifier is matched to, '' when
\* the loop goes on to the next identifier
matchedDomain(toolName) ==
    LET current == currentDomain(compiledDomainMap, toolName)
    IN  IF current # <<>> /\ MapHas(compiledSets, current) THEN current ELSE <<>>

\* the first domain, in the order the action sets were compiled, that the
\* identifier contains; '' when there is none
firstCompiledDomain(toolName) ==
    currentDomain(compiledSets, toolName)

\* C33: a tool identifier is matched to the first domain, in the order the
\* action sets were compiled, whose domain string is contained in the
\* identifier; the result depends only on the identifier and the compile order
C33_FirstCompiledDomain ==
    compiledAll =>
        \A toolName \in requestedNames :
            matchedDomain(toolName) = firstCompiledDomain(toolName)

\* what holds: when every stored set was compiled the match is the first
\* compiled domain the identifier contains, overlapping domains included
C33_FirstOfAllCompiled ==
    ( /\ compiledAll
      /\ MapKeys(compiledDomainMap) = MapKeys(compiledSets) ) =>
        \A toolName \in requestedNames :
            matchedDomain(toolName) = firstCompiledDomain(toolName)

\* two overlapping domains are compiled and an identifier contains both
C33_Overlap ==
    /\ compiledAll
    /\ MapKeys(compiledDomainMap) = MapKeys(compiledSets)
    /\ \E toolName \in requestedNames :
          /\ Cardinality({ k \in 1..Len(compiledSets) :
                             Includes(toolName, compiledSets[k].key) }) = 2
          /\ matchedDomain(toolName) = compiledSets[1].key
          /\ matchedDomain(toolName) = domainParser(D_x_io)

\* ---------------------------------------------------------------------
\* one action tool for an identifier in a run

\* the calls of createActionTool made for an identifier, by position in the log
createdFor(toolName) ==
    { k \in 1..Len(praLog) :
        praLog[k].op = "createActionTool" /\ praLog[k].name = toolName }

\* the calls of the batch that name the identifier and were started
startedFor(toolName) ==
    { i \in startedCalls : requiredActions[i].tool = toolName }

\* C34: within one run an identifier resolves to at most one tool instance:
\* once an action tool was constructed for it, every later reference reuses
\* that instance and createActionTool is not called again for it
C34_OneToolPerIdentifier ==
    \A toolName \in requestedNames :
        /\ Cardinality(createdFor(toolName)) <= 1
        /\ Cardinality({ e \in 1..Len(ActionToolMap) : ActionToolMap[e].key = toolName }) <= 1
        /\ MapHas(ActionToolMap, toolName) =>
              /\ Cardinality(createdFor(toolName)) = 1
              /\ MapGet(ActionToolMap, toolName).name = toolName
              /\ ~InToolMap(ToolMap, toolName)

\* the identifier of an action is named twice in a batch, both calls were
\* started and the batch has returned
C34_Witness ==
    /\ praPc = "returned"
    /\ \E toolName \in requestedNames :
          /\ MapHas(ActionToolMap, toolName)
          /\ Cardinality(startedFor(toolName)) = 2
          /\ Cardinality(createdFor(toolName)) = 1

\* ---------------------------------------------------------------------
\* the tools to load for a batch

\* the tools processRequiredActions handed to loadTools
toolsHandedOver ==
    toolsToLoad(requiredActions)

\* the identifier is a member of the toolkit with this plugin key
isMemberOf(toolName, pluginKey) ==
    /\ toolName \in toolDefinitions
    /\ toolName \notin manifestToolMap
    /\ StartsWith(toolName, pluginKey \o S_underscore)

isToolkitMember(toolName) ==
    \E k \in 1..Len(toolkits) : isMemberOf(toolName, toolkits[k].pluginKey)

\* how often a name occurs in a list of names
occurrences(names, name) ==
    Cardinality({ k \in 1..Len(names) : names[k] = name })

\* the tools have been handed to loadTools
toolsPartitioned ==
    praPc \notin {"idle", "start", "getCachedTools"}

\* C35: every toolkit with at least one requested member contributes exactly
\* one entry, its key, to the tools to load, however many members are
\* requested and whichever other toolkits' members come earlier; identifiers
\* that are no toolkit members are passed through unchanged
C35_EveryToolkitOnce ==
    toolsPartitioned =>
        /\ \A k \in 1..Len(toolkits) :
              LET pluginKey == toolkits[k].pluginKey
              IN  (\E toolName \in requestedNames : isMemberOf(toolName, pluginKey))
                      => occurrences(toolsHandedOver, pluginKey) = 1
        /\ \A toolName \in requestedNames :
              ~isToolkitMember(toolName) =>
                  occurrences(toolsHandedOver, toolName)
                      = Cardinality({ i \in 1..Len(requiredActions) :
                                        requiredActions[i].tool = toolName })

\* what holds: no toolkit key is handed over twice, a key is handed over only
\* for a requested member, and the other identifiers are passed through
C35_NoToolkitTwice ==
    toolsPartitioned =>
        /\ \A k \in 1..Len(toolkits) :
              LET pluginKey == toolkits[k].pluginKey
              IN  /\ occurrences(toolsHandedOver, pluginKey) <= 1
                  /\ occurrences(toolsHandedOver, pluginKey) = 1 =>
                        \E toolName \in requestedNames : isMemberOf(toolName, pluginKey)
        /\ \A toolName \in requestedNames :
              ~isToolkitMember(toolName) =>
                  occurrences(toolsHandedOver, toolName)
                      = Cardinality({ i \in 1..Len(requiredActions) :
                                        requiredActions[i].tool = toolName })

\* a member of the second toolkit is requested before a member of the first
C35_BothToolkits ==
    /\ toolsPartitioned
    /\ Len(requiredActions) = 2
    /\ isMemberOf(requiredActions[1].tool, toolkits[2].pluginKey)
    /\ isMemberOf(requiredActions[2].tool, toolkits[1].pluginKey)
    /\ toolsHandedOver = <<toolkits[2].pluginKey, toolkits[1].pluginKey>>

\* ---------------------------------------------------------------------
\* the server name of a gated tool

\* serverName for a name of the form toolName:::mcp:::serverName
isNameAndServer(toolName, name, serverName) ==
    toolName = name \o MCP_DELIMITER \o serverName

\* the prefixes and the suffixes of a name
prefixesOf(toolName) ==
    { SubSeq(toolName, 1, k) : k \in 0..Len(toolName) }
suffixesOf(toolName) ==
    { SubSeq(toolName, k, Len(toolName)) : k \in 1..(Len(toolName) + 1) }

\* C36: the serverName of a gated tool is the part after the MCP delimiter
\* for a name toolName:::mcp:::serverName, "mcp" when that part is empty, and
\* "builtin" for every other name; it is computed once when the tool is
\* wrapped and is the same for every invocation
C36_ServerName ==
    ( /\ approvalCall.op = "wrapToolWithApproval"
      /\ approvalCall.state = "wrapped" ) =>
        LET toolName == approvalCall.toolName
            forms == { <<n, srv>> \in prefixesOf(toolName) \X suffixesOf(toolName) :
                          isNameAndServer(toolName, n, srv) }
        IN  /\ forms = {} => approvalCall.serverName = S_builtin
            /\ \A f \in forms :
                  approvalCall.serverName = IF f[2] = <<>> THEN S_mcp ELSE f[2]
            /\ \A k \in 1..Len(approvalCall.passed) :
                  approvalCall.passed[k] = approvalCall.serverName

\* the same in the gate: the flow of every invocation carries the server name
\* of the tool it was made for
C36_FlowServerName ==
    \A i \in Calls :
        HasFlow(i) =>
            /\ flows[vid[i]].serverName = getToolServerName(call[i].tool)
            /\ \A j \in Calls :
                  (HasFlow(j) /\ call[j].tool = call[i].tool)
                      => flows[vid[j]].serverName = flows[vid[i]].serverName

\* an MCP tool was wrapped and invoked twice
C36_Witness ==
    /\ approvalCall.op = "wrapToolWithApproval"
    /\ approvalCall.toolName = T_mcp_search
    /\ Len(approvalCall.passed) = 2
    /\ approvalCall.serverName = <<"s","r","v">>

\* an MCP name with nothing after the delimiter
C36_WitnessFallback ==
    /\ approvalCall.op = "wrapToolWithApproval"
    /\ approvalCall.toolName = T_mcp_no_server
    /\ approvalCall.state = "wrapped"
    /\ approvalCall.serverName = S_mcp

\* ---------------------------------------------------------------------
\* native web search and the approval of web_search

\* the calls of initializeOpenAI that went through lines 158-166
initialized ==
    /\ approvalCall.op = "initializeOpenAI"
    /\ approvalCall.state = "returned"

\* how often 'web_search' is in dropParams
droppedWebSearch ==
    Cardinality({ k \in 1..Len(approvalCall.dropParams.items) :
                     approvalCall.dropParams.items[k] = S_web_search })

\* a pattern that matches web_search without being that name
isWiderPattern(pattern) ==
    pattern # S_web_search /\ matchesPattern(S_web_search, pattern)

usesWiderPattern(toolApproval) ==
    \/ \E k \in 1..Len(toolApproval.excluded) : isWiderPattern(toolApproval.excluded[k])
    \/ \E k \in 1..Len(toolApproval.requiredPatterns) :
          isWiderPattern(toolApproval.requiredPatterns[k])

\* C37: for every toolApproval configuration, configurations with wildcard
\* or "all" patterns included, native web search is disabled (and
\* 'web_search' is in dropParams exactly once) if and only if web_search
\* requires approval under that configuration
C37_DisabledIffRequiresApproval ==
    initialized =>
        /\ approvalCall.value = requiresApproval(S_web_search, approvalCall.toolApproval)
        /\ approvalCall.value => droppedWebSearch = 1

\* the two agree for the configurations that name web_search literally
C37_AgreeWithoutWiderPatterns ==
    (initialized /\ ~usesWiderPattern(approvalCall.toolApproval)) =>
        approvalCall.value = requiresApproval(S_web_search, approvalCall.toolApproval)

\* when native web search is disabled, 'web_search' is in dropParams once
C37_DroppedOnce ==
    (initialized /\ approvalCall.value) =>
        /\ approvalCall.dropParams.defined
        /\ droppedWebSearch = 1

\* web_search is gated through "all", yet native web search stays on
C37_GatedButNative ==
    /\ initialized
    /\ approvalCall.toolApproval.requiredPatterns = <<S_all>>
    /\ requiresApproval(S_web_search, approvalCall.toolApproval)
    /\ ~approvalCall.value

\* web_search is excluded through a wildcard, yet native web search is off
C37_ExemptButDisabled ==
    /\ initialized
    /\ approvalCall.toolApproval.required = "true"
    /\ approvalCall.toolApproval.excluded = <<S_web_star>>
    /\ ~requiresApproval(S_web_search, approvalCall.toolApproval)
    /\ approvalCall.value

\* ---------------------------------------------------------------------
\* the action flag of a transcript entry

\* the tool_call parts of the transcript
toolCallParts ==
    { k \in 1..Len(contentData) : contentData[k].type = "tool_call" }

\* line 147: the tool of the identifier came from the action tools, not from
\* the loaded tools
fromActionNamespace(toolName) ==
    ~InToolMap(ToolMap, toolName) /\ MapHas(ActionToolMap, toolName)

\* C38: the action flag on a tool call's transcript entry is true exactly
\* when the call's tool was resolved from the action namespace, for every
\* order of the calls in the batch and every completion order; resolving
\* an action tool for one call does not change the flag recorded for a
\* sibling call that uses a builtin tool
C38_ActionFlag ==
    \A k \in toolCallParts :
        contentData[k].tool_call.action
            = fromActionNamespace(contentData[k].tool_call.function.name)

\* the entry of a call that uses an action tool carries the flag
C38_ActionToolsFlagged ==
    \A k \in toolCallParts :
        fromActionNamespace(contentData[k].tool_call.function.name)
            => contentData[k].tool_call.action

\* an entry is flagged only after an action tool was created in the run
C38_FlagNeedsAnActionTool ==
    \A k \in toolCallParts :
        contentData[k].tool_call.action => Len(ActionToolMap) > 0

\* the flag of the run is never taken back
C38_FlagNeverReset ==
    [][isActionTool => isActionTool']_vars

\* a builtin tool's entry carries the flag of an action sibling
C38_BuiltinFlagged ==
    \E k \in toolCallParts :
        /\ contentData[k].tool_call.function.name = S_calculator
        /\ InToolMap(ToolMap, S_calculator)
        /\ contentData[k].tool_call.action
        /\ MapHas(ActionToolMap, A_get_x)

\* the same builtin tool's entry without the flag: it resolved before the
\* action sibling's tool was created
C38_BuiltinUnflagged ==
    \E k \in toolCallParts :
        /\ contentData[k].tool_call.function.name = S_calculator
        /\ ~contentData[k].tool_call.action
        /\ MapHas(ActionToolMap, A_get_x)

====
